---- MODULE Spec2Model ----
(***************************************************************************)
(* A model of pof/src/types.rs: the subobject hierarchy of Model           *)
(* (parent fields, derived children arrays, offsets), the spatial          *)
(* partition trees of BspData and ShieldData, and the version-gated        *)
(* Serialize implementations of WeaponHardpoint and SubObject.             *)
(*                                                                         *)
(* Conventions.                                                            *)
(*   Option<T>   : <<>> is None, <<x>> is Some(x).                         *)
(*   ObjectId    : the index 0 .. n-1 into sub_objects.                    *)
(*   Vec3d       : a triple <<x, y, z>>.                                   *)
(*   f32         : an integer; arithmetic on the modelled values is exact, *)
(*                 so f32 rounding is not modelled.                        *)
(***************************************************************************)
EXTENDS Integers, Sequences, FiniteSets, TLC

(***************************************************************************)
(* Bounds of the model.                                                    *)
(***************************************************************************)
\* number of Model operations called in one behaviour
MaxOps == 3
\* longest children array a model may hold before recalc_all_children_ids
MaxJunk == 1
\* most polygons a tree is built from
MaxPolys == 3
\* number of transforms applied to the vertices in one behaviour
MaxEdits == 1
\* number of transforms and offset moves applied to a model with geometry
MaxXforms == 2

VARIABLES
    sub_objects,    \* Model::sub_objects: ObjectId -> SubObject
    last,           \* the last Model operation called, its arguments and result
    ops,            \* the number of Model operations called so far
    walk,           \* the running call of Model::is_obj_id_ancestor
    kind,           \* which tree owner is modelled: "bsp" (BspData) or "shield" (ShieldData)
    data_verts,     \* its vertex pool: VertexId -> Vec3d
    soup,           \* bsp: the polygons handed to recalculate; shield: ShieldData::polygons
    tree,           \* bsp: BspData::collision_tree; shield: the Option ShieldData::collision_tree
    input,          \* the polygons the last tree construction was given
    treeop,         \* the last tree operation; runs: the bbox recomputations done in
                    \* a row on the vertex pool as it is, counted up to 2
    edits,          \* the number of transforms applied to the vertices so far
    VERSION,        \* the VERSION register of the encoding thread
    sink,           \* the bytes the sink of the last write_to holds
    enc,            \* the last write_to: type, value, version read, result
    threads,        \* per thread: its VERSION cell, the version it selected, what
                    \* get_version() returned to it since
    properties,     \* a property text: the String the properties_* functions work on
    propop,         \* the last properties_* call: its arguments, the text before it,
                    \* what it returned, and the updates made so far
    entity,         \* an EyePoint, WeaponHardpoint, ThrusterGlow, Dock or Turret
    normop,         \* the last call that normalizes a direction: whether try_from
                    \* returned Err in it, whether it panicked, the calls made so far
    model,          \* a Model: the fields its bookkeeping functions read and write
    modelop         \* the last bookkeeping call on the Model: its arguments, what
                    \* it returned, the warnings before it

hierVars == <<sub_objects, last, ops>>
treeVars == <<kind, data_verts, soup, tree, input, treeop, edits>>
codecVars == <<VERSION, sink, enc>>
propVars == <<properties, propop>>
normVars == <<entity, normop>>
modVars == <<model, modelop>>
restVars == <<propVars, normVars, modVars>>
moreVars == <<threads, restVars>>
vars == <<sub_objects, last, ops, walk, kind, data_verts, soup, tree, input, treeop, edits,
          VERSION, sink, enc, threads, properties, propop, entity, normop, model, modelop>>

(***************************************************************************)
(* Option, Vec3d                                                           *)
(***************************************************************************)
None == <<>>
Some(x) == <<x>>
is_some(o) == o # <<>>
unwrap(o) == o[1]

ZERO == <<0, 0, 0>>
VAdd(a, b) == <<a[1] + b[1], a[2] + b[2], a[3] + b[3]>>
VSub(a, b) == <<a[1] - b[1], a[2] - b[2], a[3] - b[3]>>

\* the ObjectIds of the modelled Model: three subobjects
ObjIds == {0, 1, 2}

RECURSIVE SeqsUpTo(_, _)
\* every sequence over S of length at most n
SeqsUpTo(S, n) ==
    IF n = 0 THEN {<<>>}
    ELSE LET shorter == SeqsUpTo(S, n - 1)
         IN  shorter \cup {Append(s, x) : s \in {t \in shorter : Len(t) = n - 1}, x \in S}

Range(s) == {s[i] : i \in DOMAIN s}

\* the number of times x occurs in the sequence s
Count(s, x) == Cardinality({i \in DOMAIN s : s[i] = x})

(***************************************************************************)
(* Model::get_total_subobj_offset                                          *)
(***************************************************************************)
RECURSIVE total_offset_from(_, _, _, _)
\* the while-let loop: `out` accumulated so far, `cur` the subobject whose
\* parent is looked at next.  On a cyclic parent chain the loop never ends;
\* the callers below test ChainEnds first and record that as a hang, so the
\* fuel is never exhausted where the value is used.
total_offset_from(so, cur, out, fuel) ==
    IF so[cur].parent = None \/ fuel = 0 THEN out
    ELSE LET parent == unwrap(so[cur].parent)
         IN  total_offset_from(so, parent, VAdd(out, so[parent].offset), fuel - 1)

get_total_subobj_offset(so, id) ==
    total_offset_from(so, id, so[id].offset, Cardinality(DOMAIN so))

(***************************************************************************)
(* Model::is_obj_id_ancestor                                               *)
(***************************************************************************)
\* One pass through the body of `loop`: sub_obj_parent is `cur`.
\* kind "return" carries the returned bool, "panic" is the failed assert!,
\* "continue" carries the next value of sub_obj_parent.
AncestorLoopBody(so, cur, maybe_ancestor) ==
    IF cur = Some(maybe_ancestor) THEN
        [kind |-> "return", value |-> TRUE, cur |-> cur]
    ELSE IF cur = None THEN
        [kind |-> "return", value |-> FALSE, cur |-> cur]
    ELSE IF cur = so[unwrap(cur)].parent THEN
        [kind |-> "panic", value |-> FALSE, cur |-> cur]
    ELSE
        [kind |-> "continue", value |-> FALSE, cur |-> so[unwrap(cur)].parent]

RECURSIVE AncestorLoop(_, _, _, _)
\* The loop run to its end.  sub_obj_parent is the loop's whole state and
\* takes n+1 values, so a run of more than n+1 passes repeats a value and
\* never ends: "diverge".
AncestorLoop(so, cur, maybe_ancestor, fuel) ==
    LET r == AncestorLoopBody(so, cur, maybe_ancestor)
    IN  IF r.kind = "return" THEN (IF r.value THEN "true" ELSE "false")
        ELSE IF r.kind = "panic" THEN "panic"
        ELSE IF fuel = 0 THEN "diverge"
        ELSE AncestorLoop(so, r.cur, maybe_ancestor, fuel - 1)

\* "true" | "false" | "panic" (cycle detected!!) | "diverge" (never returns)
is_obj_id_ancestor(so, obj_id, maybe_ancestor) ==
    IF obj_id = maybe_ancestor THEN "true"
    ELSE AncestorLoop(so, so[obj_id].parent, maybe_ancestor, Cardinality(DOMAIN so) + 1)


(***************************************************************************)
(* Shape of the hierarchy                                                  *)
(***************************************************************************)
RECURSIVE ReachesRoot(_, _, _)
\* following parent fields from id ends at a subobject without parent
ReachesRoot(so, id, fuel) ==
    IF so[id].parent = None THEN TRUE
    ELSE IF fuel = 0 THEN FALSE
    ELSE ReachesRoot(so, unwrap(so[id].parent), fuel - 1)

ChainEnds(so, id) == ReachesRoot(so, id, Cardinality(DOMAIN so))

\* the parent relation has no cycle
Acyclic(so) == \A id \in DOMAIN so : ChainEnds(so, id)

RECURSIVE AncestorsOf(_, _, _)
\* the proper ancestors of id (the subobjects on its parent chain)
AncestorsOf(so, id, fuel) ==
    IF so[id].parent = None \/ fuel = 0 THEN {}
    ELSE {unwrap(so[id].parent)} \cup AncestorsOf(so, unwrap(so[id].parent), fuel - 1)

(***************************************************************************)
(* Model::recalc_all_children_ids                                          *)
(***************************************************************************)
RECURSIVE push_children(_, _)
\* the second loop, for i in 0..len, from index i on
push_children(so, i) ==
    IF i \notin DOMAIN so THEN so
    ELSE IF so[i].parent = None THEN push_children(so, i + 1)
    ELSE LET parent == unwrap(so[i].parent)
             id == so[i].obj_id
         IN  push_children(
                 [so EXCEPT ![parent].children = Append(so[parent].children, id)],
                 i + 1)

\* the first loop: every children array cleared
clear_children(so) == [id \in DOMAIN so |-> [so[id] EXCEPT !.children = <<>>]]

\* the rescan without the clearing loop
recalc_without_clear(so) == push_children(so, 0)

recalc_all_children_ids(so) == push_children(clear_children(so), 0)

(***************************************************************************)
(* Model::make_orphan                                                      *)
(***************************************************************************)
\* Vec::remove at the first position holding x; the caller has checked x occurs
remove_first(s, x) ==
    LET pos == CHOOSE i \in DOMAIN s : s[i] = x /\ \A j \in DOMAIN s : s[j] = x => i <= j
    IN  SubSeq(s, 1, pos - 1) \o SubSeq(s, pos + 1, Len(s))

\* Result: the subobjects after the call (or at the point it stopped) and
\* fault: "none", "panic" (position(..).unwrap() on None) or "hang".
make_orphan(so, would_be_orphan) ==
    IF so[would_be_orphan].parent = None THEN
        [so |-> so, fault |-> "none"]
    ELSE IF ~ChainEnds(so, would_be_orphan) THEN
        [so |-> so, fault |-> "hang"]
    ELSE
        LET parent_id == unwrap(so[would_be_orphan].parent)
            so1 == [so EXCEPT ![would_be_orphan].offset =
                                  get_total_subobj_offset(so, would_be_orphan)]
        IN  IF would_be_orphan \notin Range(so1[parent_id].children) THEN
                [so |-> so1, fault |-> "panic"]
            ELSE
                LET so2 == [so1 EXCEPT ![parent_id].children =
                                remove_first(so1[parent_id].children, would_be_orphan)]
                IN  [so |-> [so2 EXCEPT ![would_be_orphan].parent = None],
                     fault |-> "none"]

(***************************************************************************)
(* Model::make_parent                                                      *)
(***************************************************************************)
\* The body of make_parent once the ancestor test has given `anc`.
\* Result: so, ret ("Some" | "None"), fault ("none" | "panic" | "hang")
make_parent_body(so, new_parent, new_child, anc) ==
    IF anc = "panic" THEN [so |-> so, ret |-> "None", fault |-> "panic"]
    ELSE IF anc = "diverge" THEN [so |-> so, ret |-> "None", fault |-> "hang"]
    ELSE IF anc = "true" THEN [so |-> so, ret |-> "None", fault |-> "none"]
    ELSE
        LET so1 == [so EXCEPT ![new_parent].children =
                        Append(so[new_parent].children, new_child)]
            so2 == [so1 EXCEPT ![new_child].parent = Some(new_parent)]
        IN  IF ~ChainEnds(so2, new_child) THEN
                [so |-> so2, ret |-> "None", fault |-> "hang"]
            ELSE
                LET offset_from_parents ==
                        VSub(get_total_subobj_offset(so2, new_child), so2[new_child].offset)
                IN  [so |-> [so2 EXCEPT ![new_child].offset =
                                 VSub(so2[new_child].offset, offset_from_parents)],
                     ret |-> "Some", fault |-> "none"]

\* the ancestor test with its arguments exchanged
make_parent_swapped_test(so, new_parent, new_child) ==
    make_parent_body(so, new_parent, new_child,
                     is_obj_id_ancestor(so, new_child, new_parent))

make_parent(so, new_parent, new_child) ==
    make_parent_body(so, new_parent, new_child,
                     is_obj_id_ancestor(so, new_parent, new_child))

(***************************************************************************)
(* BoundingBox.  Vertex coordinates are held in units of 0.01, so the       *)
(* padding of 0.01 is PAD = 1.  INF stands for f32::INFINITY.              *)
(***************************************************************************)
INF == 1000000
PAD == 1

Min(a, b) == IF a <= b THEN a ELSE b
Max(a, b) == IF a >= b THEN a ELSE b
\* f32 addition and subtraction: an infinite operand stays what it is
FAdd(a, b) == IF a = INF \/ a = -INF THEN a ELSE a + b
FSub(a, b) == IF a = INF \/ a = -INF THEN a ELSE a - b

BBOX_ZERO == [min |-> ZERO, max |-> ZERO]
BBOX_EMPTY == [min |-> <<INF, INF, INF>>, max |-> <<-INF, -INF, -INF>>]

expand_vec(bbox, vec) ==
    [min |-> [k \in 1 .. 3 |-> Min(bbox.min[k], vec[k])],
     max |-> [k \in 1 .. 3 |-> Max(bbox.max[k], vec[k])]]

expand_bbox(self, bbox) ==
    [min |-> [k \in 1 .. 3 |-> Min(self.min[k], bbox.min[k])],
     max |-> [k \in 1 .. 3 |-> Max(self.max[k], bbox.max[k])]]

RECURSIVE fold_vectors(_, _, _)
fold_vectors(acc, vecs, i) ==
    IF i > Len(vecs) THEN acc ELSE fold_vectors(expand_vec(acc, vecs[i]), vecs, i + 1)

\* BoundingBox::from_vectors: the fold from EMPTY
from_vectors(vecs) == fold_vectors(BBOX_EMPTY, vecs, 1)

RECURSIVE fold_bboxes(_, _, _)
fold_bboxes(acc, bboxes, i) ==
    IF i > Len(bboxes) THEN acc ELSE fold_bboxes(expand_bbox(acc, bboxes[i]), bboxes, i + 1)

\* BoundingBox::from_bboxes: the fold from EMPTY
from_bboxes(bboxes) == fold_bboxes(BBOX_EMPTY, bboxes, 1)

pad(bbox, p) ==
    [min |-> [k \in 1 .. 3 |-> FSub(bbox.min[k], p)],
     max |-> [k \in 1 .. 3 |-> FAdd(bbox.max[k], p)]]

size_on_axis(bbox, axis) == bbox.max[axis] - bbox.min[axis]

\* Iterator::max_by over [X, Y, Z] keeps the last of several greatest
\* elements: a later axis wins a tie
greatest_dimension(bbox) ==
    LET xy == IF size_on_axis(bbox, 2) >= size_on_axis(bbox, 1) THEN 2 ELSE 1
    IN  IF size_on_axis(bbox, 3) >= size_on_axis(bbox, xy) THEN 3 ELSE xy

(***************************************************************************)
(* Polygons and their per-polygon data                                     *)
(***************************************************************************)
Cross(a, b) ==
    <<a[2] * b[3] - a[3] * b[2], a[3] * b[1] - a[1] * b[3], a[1] * b[2] - a[2] * b[1]>>

RECURSIVE VSum(_, _)
VSum(vecs, i) == IF i > Len(vecs) THEN ZERO ELSE VAdd(vecs[i], VSum(vecs, i + 1))

\* the positions of the vertices a polygon's vertex ids name
PolyPoints(verts, ids) == [k \in DOMAIN ids |-> verts[ids[k]]]

\* Vec3d::average, kept exact as the sum and the count it is divided by
average(vecs) == [sum |-> VSum(vecs, 1), n |-> Len(vecs)]

\* a.center[axis].partial_cmp(b.center[axis]) is Less or Equal
CenterLeq(a, b, axis) == a.sum[axis] * b.n <= b.sum[axis] * a.n

\* The vector recalculate hands to normalize(): for a triangle the cross
\* product of its first two edges, otherwise the sum over the cyclic
\* windows of three vertices (the average times the vertex count).
face_normal(pts) ==
    IF Len(pts) = 3 THEN Cross(VSub(pts[1], pts[2]), VSub(pts[2], pts[3]))
    ELSE LET n == Len(pts)
             at(i) == pts[((i - 1) % n) + 1]
         IN  VSum([i \in 1 .. n |->
                      Cross(VSub(at(i), at(i + 1)), VSub(at(i + 1), at(i + 2)))], 1)

RECURSIVE insert_sorted(_, _, _)
\* x put behind every element whose key is not greater than its own
insert_sorted(sorted, x, axis) ==
    IF sorted = <<>> THEN <<x>>
    ELSE LET lst == sorted[Len(sorted)]
         IN  IF CenterLeq(lst.center, x.center, axis) THEN Append(sorted, x)
             ELSE Append(insert_sorted(SubSeq(sorted, 1, Len(sorted) - 1), x, axis), lst)

RECURSIVE sort_from(_, _, _, _)
sort_from(sorted, infos, i, axis) ==
    IF i > Len(infos) THEN sorted
    ELSE sort_from(insert_sorted(sorted, infos[i], axis), infos, i + 1, axis)

\* slice::sort_by on the centre coordinate: a stable sort
sort_by_center(infos, axis) == sort_from(<<>>, infos, 1, axis)

(***************************************************************************)
(* BspData::recalculate                                                    *)
(***************************************************************************)
BspEmpty == [tag |-> "Empty"]
BspLeaf(bbox, poly) == [tag |-> "Leaf", bbox |-> bbox, poly |-> poly]
BspSplit(bbox, front, back) == [tag |-> "Split", bbox |-> bbox, front |-> front, back |-> back]

\* the closure of the first pass: (centre, padded bbox, polygon with its normal)
bsp_poly_info(verts, poly) ==
    LET pts == PolyPoints(verts, poly.verts)
    IN  [center |-> average(pts),
         bbox |-> pad(from_vectors(pts), PAD),
         poly |-> [poly EXCEPT !.normal = face_normal(pts)]]

\* the base case taken for a slice of any length: [first, ..] for [only]
bsp_recalc_first_only(polygons) == BspLeaf(polygons[1].bbox, polygons[1].poly)

RECURSIVE bsp_recalc_recurse(_)
\* the halfpoint rounded up: the odd polygon goes to the front branch
bsp_recalc_front_heavy(polygons) ==
    IF Len(polygons) = 1 THEN BspLeaf(polygons[1].bbox, polygons[1].poly)
    ELSE LET bbox == pad(from_bboxes([k \in DOMAIN polygons |-> polygons[k].bbox]), PAD)
             axis == greatest_dimension(bbox)
             sorted == sort_by_center(polygons, axis)
             halfpoint == (Len(sorted) + 1) \div 2
         IN  BspSplit(bbox,
                      bsp_recalc_recurse(SubSeq(sorted, 1, halfpoint)),
                      bsp_recalc_recurse(SubSeq(sorted, halfpoint + 1, Len(sorted))))

bsp_recalc_recurse(polygons) ==
    IF Len(polygons) = 1 THEN BspLeaf(polygons[1].bbox, polygons[1].poly)
    ELSE LET bbox == pad(from_bboxes([k \in DOMAIN polygons |-> polygons[k].bbox]), PAD)
             axis == greatest_dimension(bbox)
             sorted == sort_by_center(polygons, axis)
             halfpoint == Len(sorted) \div 2
         IN  BspSplit(bbox,
                      bsp_recalc_recurse(SubSeq(sorted, 1, halfpoint)),
                      bsp_recalc_recurse(SubSeq(sorted, halfpoint + 1, Len(sorted))))

BspData_recalculate(verts, polygons) ==
    IF polygons = <<>> THEN BspEmpty
    ELSE bsp_recalc_recurse([k \in DOMAIN polygons |-> bsp_poly_info(verts, polygons[k])])

(***************************************************************************)
(* BspNode::bbox, BspNode::recalculate_bboxes, BspNode::into_leaves        *)
(***************************************************************************)
bsp_bbox(node) == IF node.tag = "Empty" THEN BBOX_EMPTY ELSE node.bbox

RECURSIVE BspNode_recalculate_bboxes(_, _)
\* a Split takes the bbox of its front child and is not expanded by the back one
recalculate_bboxes_front_only(node, verts) ==
    IF node.tag = "Split" THEN
        LET front == BspNode_recalculate_bboxes(node.front, verts)
            back == BspNode_recalculate_bboxes(node.back, verts)
        IN  BspSplit(bsp_bbox(front), front, back)
    ELSE IF node.tag = "Leaf" THEN
        BspLeaf(from_vectors(PolyPoints(verts, node.poly.verts)), node.poly)
    ELSE node

BspNode_recalculate_bboxes(node, verts) ==
    IF node.tag = "Split" THEN
        LET front == BspNode_recalculate_bboxes(node.front, verts)
            back == BspNode_recalculate_bboxes(node.back, verts)
        IN  BspSplit(expand_bbox(bsp_bbox(front), bsp_bbox(back)), front, back)
    ELSE IF node.tag = "Leaf" THEN
        BspLeaf(from_vectors(PolyPoints(verts, node.poly.verts)), node.poly)
    ELSE node

RECURSIVE bsp_leaves_back_first(_)
\* the leaves taken back to front
bsp_leaves_back_first(node) ==
    IF node.tag = "Split" THEN bsp_leaves_back_first(node.back) \o bsp_leaves_back_first(node.front)
    ELSE IF node.tag = "Leaf" THEN <<[bbox |-> node.bbox, poly |-> node.poly]>>
    ELSE <<>>

RECURSIVE bsp_leaves(_)
\* the (bbox, polygon) pairs the leaf iterators yield: the stack is popped
\* front first, so the leaves come front to back
bsp_leaves(node) ==
    IF node.tag = "Split" THEN bsp_leaves(node.front) \o bsp_leaves(node.back)
    ELSE IF node.tag = "Leaf" THEN <<[bbox |-> node.bbox, poly |-> node.poly]>>
    ELSE <<>>

\* into_leaves().map(|(_, poly)| poly)
into_leaves_polys(node) == LET ls == bsp_leaves(node) IN [k \in DOMAIN ls |-> ls[k].poly]

(***************************************************************************)
(* ShieldData::recalculate_tree, ShieldData::recalculate_bboxes            *)
(***************************************************************************)
ShieldLeaf(bbox, poly_list) == [tag |-> "Leaf", bbox |-> bbox, poly_list |-> poly_list]
ShieldSplit(bbox, front, back) == [tag |-> "Split", bbox |-> bbox, front |-> front, back |-> back]

\* ShieldPolyInfo of polygon number i (PolygonId(i), counted from 0)
shield_poly_info(verts, polygons, i) ==
    LET pts == PolyPoints(verts, polygons[i + 1].verts)
    IN  [id |-> i, bbox |-> pad(from_vectors(pts), PAD), center |-> average(pts)]

RECURSIVE shield_recalc_recurse(_)
shield_recalc_recurse(poly_infos) ==
    IF Len(poly_infos) = 1 THEN ShieldLeaf(poly_infos[1].bbox, <<poly_infos[1].id>>)
    ELSE LET bbox == pad(from_bboxes([k \in DOMAIN poly_infos |-> poly_infos[k].bbox]), PAD)
             axis == greatest_dimension(bbox)
             sorted == sort_by_center(poly_infos, axis)
             halfpoint == Len(sorted) \div 2
         IN  ShieldSplit(bbox,
                         shield_recalc_recurse(SubSeq(sorted, 1, halfpoint)),
                         shield_recalc_recurse(SubSeq(sorted, halfpoint + 1, Len(sorted))))

ShieldData_recalculate_tree(verts, polygons) ==
    IF polygons = <<>> THEN ShieldLeaf(BBOX_ZERO, <<>>)
    ELSE shield_recalc_recurse([k \in DOMAIN polygons |-> shield_poly_info(verts, polygons, k - 1)])

RECURSIVE shield_leaf_bbox(_, _, _, _, _)
\* the for loop over poly_list: three expand_vec per polygon id
shield_leaf_bbox(acc, verts, polygons, poly_list, i) ==
    IF i > Len(poly_list) THEN acc
    ELSE LET v == polygons[poly_list[i] + 1].verts
         IN  shield_leaf_bbox(
                 expand_vec(expand_vec(expand_vec(acc, verts[v[1]]), verts[v[2]]), verts[v[3]]),
                 verts, polygons, poly_list, i + 1)

RECURSIVE recalculate_bboxes_recurse(_, _, _)
\* a Leaf pads and extends the bbox it holds instead of starting from EMPTY
recalculate_bboxes_grow(verts, polygons, node) ==
    IF node.tag = "Split" THEN
        LET front == recalculate_bboxes_recurse(verts, polygons, node.front)
            back == recalculate_bboxes_recurse(verts, polygons, node.back)
        IN  ShieldSplit(expand_bbox(expand_bbox(BBOX_EMPTY, front.bbox), back.bbox), front, back)
    ELSE
        ShieldLeaf(shield_leaf_bbox(pad(node.bbox, PAD), verts, polygons, node.poly_list, 1),
                   node.poly_list)

recalculate_bboxes_recurse(verts, polygons, node) ==
    IF node.tag = "Split" THEN
        LET front == recalculate_bboxes_recurse(verts, polygons, node.front)
            back == recalculate_bboxes_recurse(verts, polygons, node.back)
        IN  ShieldSplit(expand_bbox(expand_bbox(BBOX_EMPTY, front.bbox), back.bbox), front, back)
    ELSE
        ShieldLeaf(shield_leaf_bbox(BBOX_EMPTY, verts, polygons, node.poly_list, 1),
                   node.poly_list)

\* collision_tree is an Option: nothing is done for None
ShieldData_recalculate_bboxes(verts, polygons, collision_tree) ==
    IF collision_tree = None THEN None
    ELSE Some(recalculate_bboxes_recurse(verts, polygons, unwrap(collision_tree)))

(***************************************************************************)
(* Models the hierarchy specifications start from                          *)
(***************************************************************************)
OptIds == {None} \cup {Some(id) : id \in ObjIds}

\* every assignment of parent fields, cyclic ones included
ParentMaps == [ObjIds -> OptIds]

\* the subobject offsets the models start with: one unit along an axis
InitOffset(id) ==
    <<IF id % 3 = 0 THEN 1 ELSE 0, IF id % 3 = 1 THEN 1 ELSE 0, IF id % 3 = 2 THEN 1 ELSE 0>>

\* every arrangement of the set S as a sequence without repetition
Perms(S) ==
    {s \in [1 .. Cardinality(S) -> S] : \A i, j \in 1 .. Cardinality(S) : s[i] = s[j] => i = j}

KidsOf(pm, p) == {id \in ObjIds : pm[id] = Some(p)}

\* the subobjects with parent fields pm and children arrays ch
MkModel(pm, ch) ==
    [id \in ObjIds |->
        [obj_id |-> id, parent |-> pm[id], offset |-> InitOffset(id), children |-> ch[id]]]

\* the models whose parent relation is acyclic and whose children arrays list,
\* in any order and once each, the subobjects whose parent field names them
ConsistentModels ==
    {m \in UNION {{MkModel(pm, ch) : ch \in [ObjIds -> UNION {Perms(KidsOf(pm, p)) : p \in ObjIds}]}
                    : pm \in ParentMaps} :
        /\ Acyclic(m)
        /\ \A p \in ObjIds : /\ Range(m[p].children) = KidsOf([id \in ObjIds |-> m[id].parent], p)
                             /\ Len(m[p].children) = Cardinality(Range(m[p].children))}

NoCall == [op |-> "none", a |-> 0, b |-> 0, ret |-> "unit", fault |-> "none"]
WalkIdle == [pc |-> "idle", obj_id |-> 0, maybe_ancestor |-> 0, cur |-> None, value |-> FALSE]

\* the variables of the part of the program a specification does not run
HierIdle ==
    /\ sub_objects = MkModel([id \in ObjIds |-> None], [id \in ObjIds |-> <<>>])
    /\ last = NoCall
    /\ ops = 0
    /\ walk = WalkIdle

TreeIdle ==
    /\ kind = "bsp"
    /\ data_verts = <<>>
    /\ soup = <<>>
    /\ tree = [tag |-> "Empty"]
    /\ input = <<>>
    /\ treeop = [op |-> "none", runs |-> 0]
    /\ edits = 0

(***************************************************************************)
(* Version                                                                 *)
(***************************************************************************)
V21_16 == 2116
V21_17 == 2117
V21_18 == 2118
V22_00 == 2200
V22_01 == 2201
V23_01 == 2301

\* the numeric codes of the enum, in declaration order
Versions ==
    {1900, 1903, 2000, 2002, 2003, 2004, 2007, 2009, 2014, 2016,
     V21_16, V21_17, V21_18, V22_00, V22_01, 2300, V23_01}

\* Version::LATEST, the value Version::default() gives
LATEST == V23_01


NoEncode == [ty |-> "none", ret |-> "Ok"]

CodecIdle ==
    /\ VERSION = LATEST
    /\ sink = <<>>
    /\ enc = NoEncode

\* the threads that encode
Threads == {1, 2}

\* thread_local!: every thread has a cell of its own, made on first use by
\* Cell::new(Version::default())
NewCell == [VERSION |-> LATEST, selected |-> None, got |-> None]

ThreadsIdle == threads = [t \in Threads |-> NewCell]

\* no properties_* call made, on an empty text
NoProp == [op |-> "none", updates |-> 0]

PropsIdle ==
    /\ properties = <<>>
    /\ propop = NoProp

\* no normalizing call made
NoNorm == [op |-> "none", fault |-> "none", failed |-> FALSE, calls |-> 0]

NormIdle ==
    /\ entity = [ty |-> "none"]
    /\ normop = NoNorm

\* no bookkeeping call made
NoModelOp == [op |-> "none"]

ModelIdle ==
    /\ model = [version |-> LATEST]
    /\ modelop = NoModelOp

RestIdle == PropsIdle /\ NormIdle /\ ModelIdle

MoreIdle == ThreadsIdle /\ RestIdle

(***************************************************************************)
(* SpecHier: make_parent, make_orphan and recalc_all_children_ids called   *)
(* in any order on a model that starts consistent.                         *)
(***************************************************************************)
InitHier ==
    /\ sub_objects \in ConsistentModels
    /\ last = NoCall
    /\ ops = 0
    /\ walk = WalkIdle
    /\ TreeIdle
    /\ CodecIdle
    /\ MoreIdle

MakeParent ==
    \E new_parent, new_child \in ObjIds :
        LET r == make_parent(sub_objects, new_parent, new_child)
        IN  /\ last.fault = "none"
            /\ ops < MaxOps
            /\ ops' = ops + 1
            /\ sub_objects' = r.so
            /\ last' = [op |-> "make_parent", a |-> new_parent, b |-> new_child,
                        ret |-> r.ret, fault |-> r.fault]
            /\ UNCHANGED <<walk, treeVars, codecVars, moreVars>>

MakeOrphan ==
    \E would_be_orphan \in ObjIds :
        LET r == make_orphan(sub_objects, would_be_orphan)
        IN  /\ last.fault = "none"
            /\ ops < MaxOps
            /\ ops' = ops + 1
            /\ sub_objects' = r.so
            /\ last' = [op |-> "make_orphan", a |-> would_be_orphan, b |-> 0,
                        ret |-> "unit", fault |-> r.fault]
            /\ UNCHANGED <<walk, treeVars, codecVars, moreVars>>

RecalcAllChildrenIds ==
    /\ last.fault = "none"
    /\ ops < MaxOps
    /\ ops' = ops + 1
    /\ sub_objects' = recalc_all_children_ids(sub_objects)
    /\ last' = [op |-> "recalc_all_children_ids", a |-> 0, b |-> 0,
                ret |-> "unit", fault |-> "none"]
    /\ UNCHANGED <<walk, treeVars, codecVars, moreVars>>

NextHier == MakeParent \/ MakeOrphan \/ RecalcAllChildrenIds

SpecHier == InitHier /\ [][NextHier]_vars

(***************************************************************************)
(* SpecRecalc: recalc_all_children_ids called on a model whose parent      *)
(* fields and children arrays hold anything.                               *)
(***************************************************************************)
InitRecalc ==
    /\ sub_objects \in {MkModel(pm, ch) : pm \in ParentMaps,
                                          ch \in [ObjIds -> SeqsUpTo(ObjIds, MaxJunk)]}
    /\ last = NoCall
    /\ ops = 0
    /\ walk = WalkIdle
    /\ TreeIdle
    /\ CodecIdle
    /\ MoreIdle

NextRecalc == RecalcAllChildrenIds

SpecRecalc == InitRecalc /\ [][NextRecalc]_vars

(***************************************************************************)
(* SpecWalk: is_obj_id_ancestor run pass by pass of its loop, on a model   *)
(* whose parent fields hold anything.  The loop is the only thing the      *)
(* calling thread does, so a pass that can run does run: WF on LoopPass.   *)
(***************************************************************************)
InitWalk ==
    /\ sub_objects \in {recalc_all_children_ids(MkModel(pm, [id \in ObjIds |-> <<>>]))
                            : pm \in ParentMaps}
    /\ last = NoCall
    /\ ops = 0
    /\ walk = WalkIdle
    /\ TreeIdle
    /\ CodecIdle
    /\ MoreIdle

\* the call, up to the first evaluation of the loop
CallIsObjIdAncestor ==
    \E obj_id, maybe_ancestor \in ObjIds :
        /\ walk.pc \in {"idle", "returned"}
        /\ walk' = IF obj_id = maybe_ancestor
                   THEN [pc |-> "returned", obj_id |-> obj_id, maybe_ancestor |-> maybe_ancestor,
                         cur |-> None, value |-> TRUE]
                   ELSE [pc |-> "loop", obj_id |-> obj_id, maybe_ancestor |-> maybe_ancestor,
                         cur |-> sub_objects[obj_id].parent, value |-> FALSE]
        /\ UNCHANGED <<hierVars, treeVars, codecVars, moreVars>>

\* one pass through the loop
LoopPass ==
    /\ walk.pc = "loop"
    /\ LET r == AncestorLoopBody(sub_objects, walk.cur, walk.maybe_ancestor)
       IN  walk' = [walk EXCEPT
                       !.pc = IF r.kind = "return" THEN "returned"
                              ELSE IF r.kind = "panic" THEN "panicked"
                              ELSE "loop",
                       !.cur = r.cur,
                       !.value = r.value]
    /\ UNCHANGED <<hierVars, treeVars, codecVars, moreVars>>

NextWalk == CallIsObjIdAncestor \/ LoopPass

SpecWalk == InitWalk /\ [][NextWalk]_vars /\ WF_vars(LoopPass)

(***************************************************************************)
(* SpecTree: one tree owner, a BspData or a ShieldData.  Its tree is       *)
(* built from the polygons, its vertices are transformed, its bboxes are   *)
(* recomputed, the BSP tree is rebuilt from its own leaves (as             *)
(* Model::apply_subobj_transform does).                                    *)
(***************************************************************************)
VertIds == {0, 1, 2, 3}

\* vertex pools the owners start with: four points in general position,
\* four points on a line, four coincident points
InitPools ==
    { (0 :> <<0, 0, 0>> @@ 1 :> <<400, 0, 0>> @@ 2 :> <<0, 300, 0>> @@ 3 :> <<0, 0, 200>>),
      (0 :> <<0, 0, 0>> @@ 1 :> <<100, 0, 0>> @@ 2 :> <<200, 0, 0>> @@ 3 :> <<300, 0, 0>>),
      (0 :> <<50, 50, 50>> @@ 1 :> <<50, 50, 50>> @@ 2 :> <<50, 50, 50>> @@ 3 :> <<50, 50, 50>>) }

\* what the transforms do to a vertex (matrix * vert): a translation, a
\* non-uniform scale, a quarter turn about z
Transforms == {"translate", "scale", "rotate"}
transform_vert(t, v) ==
    IF t = "translate" THEN <<v[1] + 100, v[2], v[3] - 200>>
    ELSE IF t = "scale" THEN <<v[1], 3 * v[2], v[3]>>
    ELSE <<-v[2], v[1], v[3]>>

\* Polygon values: two triangles and a quad, untextured slot 0, normal not yet computed
BspPolygons ==
    {[verts |-> v, texture |-> 0, normal |-> ZERO] : v \in {<<0, 1, 2>>, <<1, 2, 3>>, <<0, 1, 2, 3>>}}

\* ShieldPolygon values: three triangles
ShieldPolygons == {[verts |-> v] : v \in {<<0, 1, 2>>, <<1, 2, 3>>, <<0, 2, 3>>}}

RECURSIVE ReaderBspTree(_)
\* a BSP tree as a file may hold it: a chain of Splits ending in Empty,
\* one polygon per leaf, bboxes not yet computed
ReaderBspTree(polygons) ==
    IF polygons = <<>> THEN BspEmpty
    ELSE BspSplit(BBOX_ZERO, BspLeaf(BBOX_ZERO, Head(polygons)), ReaderBspTree(Tail(polygons)))

\* a shield tree as a file may hold it: one leaf listing every polygon
ReaderShieldTree(polygons) ==
    ShieldLeaf(BBOX_ZERO, [k \in DOMAIN polygons |-> k - 1])

NoTreeOp == [op |-> "none", runs |-> 0]

InitTree ==
    /\ kind \in {"bsp", "shield"}
    /\ data_verts \in InitPools
    /\ soup \in SeqsUpTo(IF kind = "bsp" THEN BspPolygons ELSE ShieldPolygons, MaxPolys)
    /\ tree \in IF kind = "bsp" THEN {BspEmpty, ReaderBspTree(soup)}
                ELSE {None, Some(ReaderShieldTree(soup))}
    /\ input = <<>>
    /\ treeop = NoTreeOp
    /\ edits = 0
    /\ HierIdle
    /\ CodecIdle
    /\ MoreIdle

\* what a transform does to the vertex pool of a subobject: the translation
\* is left to the subobject's offset when transform_offset is set
subobj_transform_verts(t, transform_offset, verts) ==
    IF t = "translate" /\ transform_offset THEN verts
    ELSE [id \in DOMAIN verts |-> transform_vert(t, verts[id])]

\* Model::apply_subobj_transform, as far as bsp_data goes: the vertices are
\* transformed and the tree is rebuilt from its own leaves
BspApplySubobjTransform ==
    \E t \in Transforms, transform_offset \in BOOLEAN :
        /\ kind = "bsp"
        /\ edits < MaxEdits
        /\ edits' = edits + 1
        /\ data_verts' = subobj_transform_verts(t, transform_offset, data_verts)
        /\ tree' = BspData_recalculate(data_verts', into_leaves_polys(tree))
        /\ input' = into_leaves_polys(tree)
        /\ treeop' = [op |-> "recalculate", runs |-> 0]
        /\ UNCHANGED <<kind, soup, hierVars, walk, codecVars, moreVars>>

\* ShieldData::apply_transform: the vertices are transformed and the bboxes
\* recomputed
ShieldApplyTransform ==
    \E t \in Transforms :
        /\ kind = "shield"
        /\ edits < MaxEdits
        /\ edits' = edits + 1
        /\ data_verts' = [id \in DOMAIN data_verts |-> transform_vert(t, data_verts[id])]
        /\ tree' = ShieldData_recalculate_bboxes(data_verts', soup, tree)
        /\ treeop' = [op |-> "apply_transform", runs |-> 1]
        /\ UNCHANGED <<kind, soup, input, hierVars, walk, codecVars, moreVars>>

\* BspData::recalculate on the polygon soup
BspRecalculate ==
    /\ kind = "bsp"
    /\ tree' = BspData_recalculate(data_verts, soup)
    /\ input' = soup
    /\ treeop' = [op |-> "recalculate", runs |-> 0]
    /\ UNCHANGED <<kind, data_verts, soup, edits, hierVars, walk, codecVars, moreVars>>

\* the rebuild Model::apply_subobj_transform ends with, the vertices being
\* where they were: BspData::recalculate on the leaves taken out of the tree
BspRebuildFromLeaves ==
    /\ kind = "bsp"
    /\ tree' = BspData_recalculate(data_verts, into_leaves_polys(tree))
    /\ input' = into_leaves_polys(tree)
    /\ treeop' = [op |-> "recalculate", runs |-> 0]
    /\ UNCHANGED <<kind, data_verts, soup, edits, hierVars, walk, codecVars, moreVars>>

BspRecalculateBboxes ==
    /\ kind = "bsp"
    /\ tree' = BspNode_recalculate_bboxes(tree, data_verts)
    /\ treeop' = [op |-> "recalculate_bboxes",
                  runs |-> IF treeop.runs >= 1 THEN 2 ELSE 1]
    /\ UNCHANGED <<kind, data_verts, soup, input, edits, hierVars, walk, codecVars, moreVars>>

\* ShieldData::recalculate_tree, stored as Model::clean_up stores it
ShieldRecalculateTree ==
    /\ kind = "shield"
    /\ tree' = Some(ShieldData_recalculate_tree(data_verts, soup))
    /\ input' = soup
    /\ treeop' = [op |-> "recalculate", runs |-> 0]
    /\ UNCHANGED <<kind, data_verts, soup, edits, hierVars, walk, codecVars, moreVars>>

ShieldRecalculateBboxes ==
    /\ kind = "shield"
    /\ tree' = ShieldData_recalculate_bboxes(data_verts, soup, tree)
    /\ treeop' = [op |-> "recalculate_bboxes",
                  runs |-> IF treeop.runs >= 1 THEN 2 ELSE 1]
    /\ UNCHANGED <<kind, data_verts, soup, input, edits, hierVars, walk, codecVars, moreVars>>

NextTree ==
    \/ BspApplySubobjTransform
    \/ ShieldApplyTransform
    \/ BspRecalculate
    \/ BspRebuildFromLeaves
    \/ BspRecalculateBboxes
    \/ ShieldRecalculateTree
    \/ ShieldRecalculateBboxes

SpecTree == InitTree /\ [][NextTree]_vars

(***************************************************************************)
(* The primitive encodings (crate::write): little-endian fixed width       *)
(* integers and floats, strings prefixed with their length.  A write_to    *)
(* is modelled as the sequence of writes it issues to the sink, each a     *)
(* sequence of bytes.                                                      *)
(***************************************************************************)
\* u32 and i32 hold the two's-complement reading of their 32 bits, so
\* u32::MAX is -1
U32_MAX == -1

\* the four bytes of a 32-bit integer, least significant first
Int32LE(n) ==
    <<n % 256, (n \div 256) % 256, (n \div 65536) % 256, (n \div 16777216) % 256>>

u32_write_to(n) == <<Int32LE(n)>>
i32_write_to(n) == <<Int32LE(n)>>

\* the IEEE 754 single precision bytes of the f32 values the model uses
F32LE(x) ==
    CASE x = 0 -> <<0, 0, 0, 0>>
      [] x = 1 -> <<0, 0, 128, 63>>
      [] x = 2 -> <<0, 0, 0, 64>>
      [] x = 3 -> <<0, 0, 64, 64>>
      [] x = 4 -> <<0, 0, 128, 64>>
      [] x = -1 -> <<0, 0, 128, 191>>
      [] x = INF -> <<0, 0, 128, 127>>
      [] x = -INF -> <<0, 0, 128, 255>>

f32_write_to(x) == <<F32LE(x)>>

\* a String: its length as u32, then its bytes
String_write_to(str) == <<Int32LE(Len(str)), str>>

\* mk_struct Vec3d: x, y, z
Vec3d_write_to(v) == f32_write_to(v[1]) \o f32_write_to(v[2]) \o f32_write_to(v[3])

\* NormalVec3(pub Vec3d): the vector it wraps
NormalVec3_write_to(n) == Vec3d_write_to(n)

\* id_type: self.0.write_to(w)
ObjectId_write_to(id) == u32_write_to(id)

\* BoundingBox::sanitize: EMPTY is replaced with ZERO
sanitize(bbox) == IF bbox = BBOX_EMPTY THEN BBOX_ZERO ELSE bbox

BoundingBox_write_to(bbox) ==
    Vec3d_write_to(sanitize(bbox).min) \o Vec3d_write_to(sanitize(bbox).max)

\* mk_enumeration: the discriminant as i32
enum_write_to(discriminant) == i32_write_to(discriminant)

(***************************************************************************)
(* WeaponHardpoint::write_to                                               *)
(***************************************************************************)
\* the offset gated on version >= 21.17
WeaponHardpoint_write_to_from_21_17(self, version) ==
    Vec3d_write_to(self.position)
    \o NormalVec3_write_to(self.normal)
    \o (IF version >= V21_17 /\ version # V22_00 THEN f32_write_to(self.offset) ELSE <<>>)

\* the offset gated on version >= 21.18 alone
WeaponHardpoint_write_to_no_22_00(self, version) ==
    Vec3d_write_to(self.position)
    \o NormalVec3_write_to(self.normal)
    \o (IF version >= V21_18 THEN f32_write_to(self.offset) ELSE <<>>)

WeaponHardpoint_write_to(self, version) ==
    Vec3d_write_to(self.position)
    \o NormalVec3_write_to(self.normal)
    \o (IF version >= V21_18 /\ version # V22_00 THEN f32_write_to(self.offset) ELSE <<>>)

(***************************************************************************)
(* BspData::write_to and SubObject::write_to                               *)
(***************************************************************************)
\* u32 0, then the length of the buffer write_bsp_data filled, then the buffer
BspData_write_to(buf) == u32_write_to(0) \o u32_write_to(Len(buf)) \o <<buf>>

\* parent.unwrap_or(ObjectId(u32::MAX))
parent_or_max(parent) == IF parent = None THEN U32_MAX ELSE unwrap(parent)

\* what follows the fields whose order depends on the version
SubObject_write_rest(self, version, buf) ==
    Vec3d_write_to(self.geo_center)
    \o BoundingBox_write_to(self.bbox)
    \o String_write_to(self.name)
    \o String_write_to(self.properties)
    \o enum_write_to(self.rotation_type)
    \o enum_write_to(self.rotation_axis)
    \o (IF version >= V23_01
        THEN enum_write_to(self.translation_type) \o enum_write_to(self.translation_axis)
        ELSE <<>>)
    \o BspData_write_to(buf)

\* the two orders taken the wrong way round
SubObject_write_to_swapped(self, version, buf) ==
    ObjectId_write_to(self.obj_id)
    \o (IF version < V21_16
        THEN f32_write_to(self.radius)
             \o ObjectId_write_to(parent_or_max(self.parent))
             \o Vec3d_write_to(self.offset)
        ELSE ObjectId_write_to(parent_or_max(self.parent))
             \o Vec3d_write_to(self.offset)
             \o f32_write_to(self.radius))
    \o SubObject_write_rest(self, version, buf)

\* buf is what write_bsp_data put into the scratch buffer for self.bsp_data
SubObject_write_to(self, version, buf) ==
    ObjectId_write_to(self.obj_id)
    \o (IF version >= V21_16
        THEN f32_write_to(self.radius)
             \o ObjectId_write_to(parent_or_max(self.parent))
             \o Vec3d_write_to(self.offset)
        ELSE ObjectId_write_to(parent_or_max(self.parent))
             \o Vec3d_write_to(self.offset)
             \o f32_write_to(self.radius))
    \o SubObject_write_rest(self, version, buf)

(***************************************************************************)
(* The sink                                                                *)
(***************************************************************************)
RECURSIVE Concat(_, _)
\* the bytes of the first n writes, in order
Concat(writes, n) ==
    IF n = 0 THEN <<>> ELSE Concat(writes, n - 1) \o writes[n]

\* A sink that accepts `room` writes and reports a failure on the next one.
\* Every write is followed by `?`: the first failure ends write_to.
run_writes(writes, room) ==
    IF room >= Len(writes) THEN [bytes |-> Concat(writes, Len(writes)), ret |-> "Ok"]
    ELSE [bytes |-> Concat(writes, room), ret |-> "Err"]

(***************************************************************************)
(* SpecCodec: the version register is set, then values are written to a    *)
(* fresh sink.                                                             *)
(***************************************************************************)
WeaponHardpoints ==
    [position : {<<1, 2, 3>>}, normal : {<<0, 0, 1>>}, offset : {0, 2}]

SubObjects ==
    [obj_id : {1}, radius : {2}, parent : {None, Some(0)},
     offset : {<<1, 2, 3>>}, geo_center : {<<1, 1, 1>>},
     bbox : {BBOX_EMPTY, [min |-> <<-1, -1, -1>>, max |-> <<1, 2, 3>>]},
     name : {<<97>>}, properties : {<<36, 120>>},
     rotation_type : {1}, rotation_axis : {-1}, translation_type : {-1},
     translation_axis : {2}]

\* buffers write_bsp_data may have filled: its code is outside types.rs
BspBufs == {<<>>, <<0, 0, 0, 0, 8, 0, 0, 0>>}

InitCodec ==
    /\ VERSION = LATEST
    /\ sink = <<>>
    /\ enc = NoEncode
    /\ HierIdle
    /\ TreeIdle
    /\ MoreIdle

\* VERSION.with(|f| f.set(version)): a write session opens with it, on a
\* sink nothing has been written to
SetVersion ==
    \E v \in Versions :
        /\ VERSION' = v
        /\ sink' = <<>>
        /\ enc' = NoEncode
        /\ UNCHANGED <<hierVars, walk, treeVars, moreVars>>

WriteWeaponHardpoint ==
    \E self \in WeaponHardpoints :
        LET writes == WeaponHardpoint_write_to(self, VERSION)
        IN  \E room \in 0 .. Len(writes) :
                /\ sink' = run_writes(writes, room).bytes
                /\ enc' = [ty |-> "WeaponHardpoint", ret |-> run_writes(writes, room).ret,
                           self |-> self, version |-> VERSION]
                /\ UNCHANGED <<VERSION, hierVars, walk, treeVars, moreVars>>

WriteSubObject ==
    \E self \in SubObjects, buf \in BspBufs :
        LET writes == SubObject_write_to(self, VERSION, buf)
        IN  \E room \in 0 .. Len(writes) :
                /\ sink' = run_writes(writes, room).bytes
                /\ enc' = [ty |-> "SubObject", ret |-> run_writes(writes, room).ret,
                           self |-> self, version |-> VERSION, buf |-> buf]
                /\ UNCHANGED <<VERSION, hierVars, walk, treeVars, moreVars>>

NextCodec == SetVersion \/ WriteWeaponHardpoint \/ WriteSubObject

SpecCodec == InitCodec /\ [][NextCodec]_vars

(***************************************************************************)
(* SpecThreads: encodes on two threads, each selecting its version and     *)
(* reading it back while it writes                                         *)
(***************************************************************************)
\* a plain static in place of the thread_local: one cell, the first thread's
get_version_static(cells, t) == cells[1].VERSION

\* VERSION.with(|f| f.get()) on thread t
get_version(cells, t) == cells[t].VERSION

InitThreads ==
    /\ ThreadsIdle
    /\ RestIdle
    /\ HierIdle
    /\ TreeIdle
    /\ CodecIdle

\* VERSION.with(|f| f.set(version)) on thread t
SelectVersion ==
    \E t \in Threads, v \in Versions :
        /\ threads' = [threads EXCEPT ![t] = [VERSION |-> v, selected |-> Some(v), got |-> None]]
        /\ UNCHANGED <<hierVars, walk, treeVars, codecVars, restVars>>

\* a write_to running on thread t calls get_version()
GetVersion ==
    \E t \in Threads :
        /\ threads' = [threads EXCEPT ![t].got = Some(get_version(threads, t))]
        /\ UNCHANGED <<hierVars, walk, treeVars, codecVars, restVars>>

NextThreads == SelectVersion \/ GetVersion

SpecThreads == InitThreads /\ [][NextThreads]_vars

(***************************************************************************)
(* Model::recalc_semantic_name_links.  A name is the sequence of the       *)
(* character codes of the String.                                          *)
(***************************************************************************)
\* "debris-" and "-destroyed"
STR_DEBRIS == <<100, 101, 98, 114, 105, 115, 45>>
STR_DESTROYED == <<45, 100, 101, 115, 116, 114, 111, 121, 101, 100>>

\* str::starts_with
starts_with(s, prefix) ==
    Len(prefix) <= Len(s) /\ SubSeq(s, 1, Len(prefix)) = prefix

\* the positions at which pat occurs in s
Occurrences(s, pat) ==
    {k \in 1 .. Len(s) - Len(pat) + 1 : SubSeq(s, k, k + Len(pat) - 1) = pat}

\* the smallest member of a non-empty set of integers
Least(S) == CHOOSE x \in S : \A y \in S : x <= y

\* str::split_once(pat), of which the caller takes the second part: what
\* follows the first occurrence of pat
split_once_rest(s, pat) ==
    IF Occurrences(s, pat) = {} THEN None
    ELSE Some(SubSeq(s, Least(Occurrences(s, pat)) + Len(pat), Len(s)))

\* str::strip_suffix
strip_suffix(s, suffix) ==
    IF Len(suffix) <= Len(s) /\ SubSeq(s, Len(s) - Len(suffix) + 1, Len(s)) = suffix
    THEN Some(SubSeq(s, 1, Len(s) - Len(suffix)))
    ELSE None

\* the variants of NameLink
DestroyedVersion(id) == [link |-> "DestroyedVersion", id |-> id, level |-> 0]
DestroyedVersionOf(id) == [link |-> "DestroyedVersionOf", id |-> id, level |-> 0]
LiveDebris(id) == [link |-> "LiveDebris", id |-> id, level |-> 0]
LiveDebrisOf(id) == [link |-> "LiveDebrisOf", id |-> id, level |-> 0]
DetailLevel(id, level) == [link |-> "DetailLevel", id |-> id, level |-> level]
DetailLevelOf(id, level) == [link |-> "DetailLevelOf", id |-> id, level |-> level]

\* self.sub_objects[id].name_links.push(link)
push_link(so, id, link) == [so EXCEPT ![id].name_links = Append(@, link)]

\* self.sub_objects.iter().find(pred): the first subobject, in the order of
\* the vector, the predicate holds for; Matching is the set of their indices
find_first(so, Matching) ==
    IF Matching = {} THEN None ELSE Some(so[Least(Matching)].obj_id)

\* the find looking for a name the remainder is a prefix of
debris_source_reversed(so, debris_of) ==
    find_first(so, {k \in DOMAIN so : starts_with(so[k].name, debris_of)})

\* find(|obj| debris_of.starts_with(&obj.name))
debris_source(so, debris_of) ==
    find_first(so, {k \in DOMAIN so : starts_with(debris_of, so[k].name)})

\* find(|obj| obj.name == destroyed_of)
destroyed_source(so, destroyed_of) ==
    find_first(so, {k \in DOMAIN so : so[k].name = destroyed_of})

\* the first if of the loop body
link_debris(so, i) ==
    LET debris_of == split_once_rest(so[i].name, STR_DEBRIS)
    IN  IF debris_of = None THEN so
        ELSE LET obj == debris_source(so, unwrap(debris_of))
             IN  IF obj = None THEN so
                 ELSE push_link(push_link(so, unwrap(obj), LiveDebris(i)), i, LiveDebrisOf(unwrap(obj)))

\* the second if of the loop body
link_destroyed(so, i) ==
    LET destroyed_of == strip_suffix(so[i].name, STR_DESTROYED)
    IN  IF destroyed_of = None THEN so
        ELSE LET obj == destroyed_source(so, unwrap(destroyed_of))
             IN  IF obj = None THEN so
                 ELSE push_link(push_link(so, unwrap(obj), DestroyedVersion(i)), i,
                                DestroyedVersionOf(unwrap(obj)))

\* the positions at which two names of one length differ
Differing(name1, name2) == {k \in DOMAIN name1 : name1[k] # name2[k]}

\* the names differ at one position, by 'a' in name1 and 'b'..='h' in name2
is_detail_pair(name1, name2) ==
    /\ Cardinality(Differing(name1, name2)) = 1
    /\ name1[Least(Differing(name1, name2))] = 97
    /\ name2[Least(Differing(name1, name2))] \in 98 .. 104

\* ch as u8 - 'a' as u8
detail_level(name1, name2) == name2[Least(Differing(name1, name2))] - 97

RECURSIVE link_details(_, _, _)
\* the inner loop over j, from j on
link_details(so, i, j) ==
    IF j \notin DOMAIN so THEN so
    ELSE IF /\ Len(so[i].name) = Len(so[j].name)
            /\ is_some(so[j].parent)
            /\ is_some(so[i].parent)
            /\ is_detail_pair(so[i].name, so[j].name)
         THEN LET level == detail_level(so[i].name, so[j].name)
              IN  link_details(push_link(push_link(so, j, DetailLevelOf(i, level)), i,
                                         DetailLevel(j, level)),
                               i, j + 1)
         ELSE link_details(so, i, j + 1)

RECURSIVE link_from(_, _)
\* the outer loop over i, from i on
link_from(so, i) ==
    IF i \notin DOMAIN so THEN so
    ELSE link_from(link_details(link_destroyed(link_debris(so, i), i), i, 0), i + 1)

\* subobj.name_links.clear() for every subobject
clear_name_links(so) == [id \in DOMAIN so |-> [so[id] EXCEPT !.name_links = <<>>]]

\* the linking loop run on the links as they are
recalc_links_without_clear(so) == link_from(so, 0)

recalc_semantic_name_links(so) == link_from(clear_name_links(so), 0)

(***************************************************************************)
(* SpecLinks: models of three named subobjects, holding links of an        *)
(* earlier call, have their links recomputed                               *)
(***************************************************************************)
\* "", "t", "ta", "tb", "ti", "debris-t", "debris-tab", "ta-destroyed",
\* "debris-ta-destroyed"
Names ==
    { <<>>, <<116>>, <<116, 97>>, <<116, 98>>, <<116, 105>>,
      STR_DEBRIS \o <<116>>, STR_DEBRIS \o <<116, 97, 98>>,
      <<116, 97>> \o STR_DESTROYED,
      STR_DEBRIS \o <<116, 97>> \o STR_DESTROYED }

\* links an earlier call may have left: none, a pair, a pair of which one
\* end was removed since
StaleLinks ==
    { [id \in ObjIds |-> <<>>],
      (0 :> <<LiveDebris(1)>> @@ 1 :> <<LiveDebrisOf(0)>> @@ 2 :> <<>>),
      (0 :> <<>> @@ 1 :> <<>> @@ 2 :> <<DetailLevel(1, 1)>>) }

\* parent fields: each subobject has none or the next one
NamedModels ==
    { [id \in ObjIds |->
          [obj_id |-> id, name |-> names[id], name_links |-> links[id],
           parent |-> IF has_parent[id] THEN Some((id + 1) % 3) ELSE None]] :
        names \in [ObjIds -> Names], links \in StaleLinks, has_parent \in [ObjIds -> BOOLEAN] }

InitLinks ==
    /\ sub_objects \in NamedModels
    /\ last = NoCall
    /\ ops = 0
    /\ walk = WalkIdle
    /\ TreeIdle
    /\ CodecIdle
    /\ MoreIdle

RecalcSemanticNameLinks ==
    /\ last.op = "none"
    /\ sub_objects' = recalc_semantic_name_links(sub_objects)
    /\ last' = [NoCall EXCEPT !.op = "recalc_semantic_name_links"]
    /\ UNCHANGED <<ops, walk, treeVars, codecVars, moreVars>>

NextLinks == RecalcSemanticNameLinks

SpecLinks == InitLinks /\ [][NextLinks]_vars

(***************************************************************************)
(* Mat4 and Model::apply_subobj_transform, subobj_move_only_offset,        *)
(* apply_transform.  A matrix is held as its linear part l (three rows)    *)
(* and its translation t.                                                  *)
(***************************************************************************)
Dot(a, b) == a[1] * b[1] + a[2] * b[2] + a[3] * b[3]

IDENTITY3 == <<<<1, 0, 0>>, <<0, 1, 0>>, <<0, 0, 1>>>>

\* the linear part applied to a vector
linear_mul(l, v) == <<Dot(l[1], v), Dot(l[2], v), Dot(l[3], v)>>

\* Mul<Vec3d> for &Mat4: transform_point
transform_point(matrix, v) == VAdd(linear_mul(matrix.l, v), matrix.t)

\* matrix.transform_point(&zero) - zero
translation_of(matrix) == VSub(transform_point(matrix, ZERO), ZERO)

\* matrix.append_translation(&(-translation))
append_translation(matrix, by) == [l |-> matrix.l, t |-> VAdd(matrix.t, by)]

\* glm::translation
glm_translation(by) == [l |-> IDENTITY3, t |-> by]

VNeg(v) == <<-v[1], -v[2], -v[3]>>

determinant(l) ==
    l[1][1] * (l[2][2] * l[3][3] - l[2][3] * l[3][2])
    - l[1][2] * (l[2][1] * l[3][3] - l[2][3] * l[3][1])
    + l[1][3] * (l[2][1] * l[3][2] - l[2][2] * l[3][1])

\* try_inverse() is None for a singular matrix
has_inverse(matrix) == determinant(matrix.l) # 0

\* the square of Vec3d::magnitude
magnitude_squared(v) == Dot(v, v)

RECURSIVE radius_over(_, _, _)
\* the running maximum the vertex loops keep, as the square of the radius
radius_over(verts, k, acc) ==
    IF k \notin DOMAIN verts THEN acc
    ELSE radius_over(verts, k + 1, Max(acc, magnitude_squared(verts[k])))

\* the vertex translated before the linear part is applied
subobj_vert_translate_first(matrix, transform_offset, vert) ==
    IF transform_offset THEN linear_mul(matrix.l, vert)
    ELSE linear_mul(matrix.l, VAdd(vert, translation_of(matrix)))

\* the body of the vertex loop: no_trans_matrix * vert, plus the translation
\* when the offset is not to take it
subobj_vert_image(matrix, transform_offset, vert) ==
    LET translation == translation_of(matrix)
        no_trans_matrix == append_translation(matrix, VNeg(translation))
    IN  IF transform_offset THEN transform_point(no_trans_matrix, vert)
        ELSE VAdd(transform_point(no_trans_matrix, vert), translation)

RECURSIVE apply_subobj_transform(_, _, _, _)
RECURSIVE apply_to_children(_, _, _, _)

\* r: the subobjects, the fault raised so far and the ids
\* apply_subobj_transform was entered for
apply_to_children(r, children, k, no_trans_matrix) ==
    IF k > Len(children) \/ r.fault # "none" THEN r
    ELSE apply_to_children(apply_subobj_transform(r, children[k], no_trans_matrix, TRUE),
                           children, k + 1, no_trans_matrix)

\* radius is kept as its square; bsp_data.norms is not part of the state
apply_subobj_transform(r, id, matrix, transform_offset) ==
    LET so == r.so
        translation == translation_of(matrix)
        no_trans_matrix == append_translation(matrix, VNeg(translation))
        verts1 == [k \in DOMAIN so[id].verts |->
                      subobj_vert_image(matrix, transform_offset, so[id].verts[k])]
        radius1 == radius_over(verts1, 0, 0)
        calls1 == Append(r.calls, id)
    IN  IF ~has_inverse(no_trans_matrix)
        THEN \* try_inverse().unwrap()
             [so |-> [so EXCEPT ![id] = [@ EXCEPT !.verts = verts1, !.radius = radius1]],
              fault |-> "panic", calls |-> calls1]
        ELSE LET tree1 == BspData_recalculate(verts1, into_leaves_polys(so[id].tree))
                 so1 == [so EXCEPT ![id] =
                            [@ EXCEPT !.verts = verts1,
                                      !.radius = radius1,
                                      !.tree = tree1,
                                      !.bbox = bsp_bbox(tree1),
                                      !.offset = IF transform_offset
                                                 THEN transform_point(matrix, @) ELSE @]]
             IN  apply_to_children([so |-> so1, fault |-> "none", calls |-> calls1],
                                   so[id].children, 1, no_trans_matrix)

RECURSIVE shift_children(_, _, _, _)
\* self.sub_objects[*id].offset -= diff for the children from the k-th on
shift_children(so, children, k, diff) ==
    IF k > Len(children) THEN so
    ELSE shift_children([so EXCEPT ![children[k]].offset = VSub(@, diff)], children, k + 1, diff)

\* SubObject::recalc_radius, the radius as its square
recalc_radius(subobj) == [subobj EXCEPT !.radius = radius_over(subobj.verts, 0, 0)]

\* what follows the loop over the children
move_only_offset_rest(so, id, new_offset, diff) ==
    LET so2 == [so EXCEPT ![id] = [@ EXCEPT !.bbox = [min |-> VSub(@.min, diff),
                                                      max |-> VSub(@.max, diff)],
                                            !.offset = new_offset]]
        r == apply_subobj_transform([so |-> so2, fault |-> "none", calls |-> <<>>], id,
                                    glm_translation(VNeg(diff)), FALSE)
    IN  IF r.fault # "none" THEN r
        ELSE [r EXCEPT !.so = [r.so EXCEPT ![id] = recalc_radius(@)]]

\* the offsets of the children left as they are
subobj_move_without_children(so, id, new_offset) ==
    move_only_offset_rest(so, id, new_offset, VSub(new_offset, so[id].offset))

subobj_move_only_offset(so, id, new_offset) ==
    LET diff == VSub(new_offset, so[id].offset)
    IN  move_only_offset_rest(shift_children(so, so[id].children, 1, diff), id, new_offset, diff)

RECURSIVE apply_transform_from(_, _, _)
\* the loop of Model::apply_transform over the subobjects, from i on
apply_transform_from(r, i, matrix) ==
    IF i \notin DOMAIN r.so \/ r.fault # "none" THEN r
    ELSE IF r.so[i].parent = None
         THEN apply_transform_from(apply_subobj_transform(r, i, matrix, TRUE), i + 1, matrix)
         ELSE apply_transform_from(r, i + 1, matrix)

RECURSIVE apply_transform_to_all(_, _, _)
\* the loop without the test for a parent
apply_transform_to_all(r, i, matrix) ==
    IF i \notin DOMAIN r.so \/ r.fault # "none" THEN r
    ELSE apply_transform_to_all(apply_subobj_transform(r, i, matrix, TRUE), i + 1, matrix)

\* every subobject transformed, with a parent or without
Model_apply_transform_all(so, matrix) ==
    apply_transform_to_all([so |-> so, fault |-> "none", calls |-> <<>>], 0, matrix)

\* Model::apply_transform, as far as sub_objects goes
Model_apply_transform(so, matrix) ==
    apply_transform_from([so |-> so, fault |-> "none", calls |-> <<>>], 0, matrix)

(***************************************************************************)
(* SpecXform: transforms and offset moves on models of three subobjects    *)
(* with geometry                                                           *)
(***************************************************************************)
\* a translation and a quarter turn about z followed by a translation, with
\* their inverses, and the projection onto the xy plane, which has none
Mat4s ==
    { [l |-> IDENTITY3, t |-> <<100, 0, -200>>],
      [l |-> IDENTITY3, t |-> <<-100, 0, 200>>],
      [l |-> <<<<0, -1, 0>>, <<1, 0, 0>>, <<0, 0, 1>>>>, t |-> <<100, 0, -200>>],
      [l |-> <<<<0, 1, 0>>, <<-1, 0, 0>>, <<0, 0, 1>>>>, t |-> <<0, 100, 200>>],
      [l |-> <<<<1, 0, 0>>, <<0, 1, 0>>, <<0, 0, 0>>>>, t |-> ZERO] }

\* the offset a subobject is moved to
NewOffsets == {<<50, 0, 25>>}

\* the vertices and polygons every subobject starts with
GeoVerts == (0 :> <<0, 0, 0>> @@ 1 :> <<400, 0, 0>> @@ 2 :> <<0, 300, 0>> @@ 3 :> <<0, 0, 200>>)
GeoPolygons ==
    << [verts |-> <<0, 1, 2>>, texture |-> 0, normal |-> ZERO],
       [verts |-> <<1, 2, 3>>, texture |-> 0, normal |-> ZERO] >>

\* the parent fields of the models: a chain; the root 1 with the child 0
\* beside the root 2
GeoParentMaps ==
    { (0 :> None @@ 1 :> Some(0) @@ 2 :> Some(1)),
      (0 :> Some(1) @@ 1 :> None @@ 2 :> None) }

\* the members of S in ascending order, as recalc_all_children_ids lists them
Ascending(S) == CHOOSE s \in Perms(S) : \A i, j \in DOMAIN s : i < j => s[i] < s[j]

\* the subobjects with their geometry, the trees as a file holds them
GeoModel(pm) ==
    [id \in ObjIds |->
        [obj_id |-> id, parent |-> pm[id], children |-> Ascending(KidsOf(pm, id)),
         offset |-> InitOffset(id), radius |-> radius_over(GeoVerts, 0, 0),
         bbox |-> bsp_bbox(ReaderBspTree(GeoPolygons)), verts |-> GeoVerts,
         tree |-> ReaderBspTree(GeoPolygons)]]

InitXform ==
    /\ sub_objects \in {GeoModel(pm) : pm \in GeoParentMaps}
    /\ last = NoCall
    /\ ops = 0
    /\ walk = WalkIdle
    /\ TreeIdle
    /\ CodecIdle
    /\ MoreIdle

\* last.before: the subobjects as they were when the call was made;
\* last.prev: the call made before this one, if it was one of this function
ApplySubobjTransform ==
    \E id \in ObjIds, matrix \in Mat4s, transform_offset \in BOOLEAN :
        LET r == apply_subobj_transform([so |-> sub_objects, fault |-> "none", calls |-> <<>>],
                                        id, matrix, transform_offset)
        IN  /\ last.fault = "none"
            /\ ops < MaxXforms
            /\ ops' = ops + 1
            /\ sub_objects' = r.so
            /\ last' = [op |-> "apply_subobj_transform", a |-> id, matrix |-> matrix,
                        flag |-> transform_offset, fault |-> r.fault, calls |-> r.calls,
                        before |-> sub_objects,
                        prev |-> IF last.op = "apply_subobj_transform"
                                 THEN [last EXCEPT !.prev = NoCall] ELSE NoCall]
            /\ UNCHANGED <<walk, treeVars, codecVars, moreVars>>

SubobjMoveOnlyOffset ==
    \E id \in ObjIds, new_offset \in NewOffsets :
        LET r == subobj_move_only_offset(sub_objects, id, new_offset)
        IN  /\ last.fault = "none"
            /\ ops < MaxXforms
            /\ ops' = ops + 1
            /\ sub_objects' = r.so
            /\ last' = [op |-> "subobj_move_only_offset", a |-> id, new_offset |-> new_offset,
                        fault |-> r.fault, calls |-> r.calls, before |-> sub_objects]
            /\ UNCHANGED <<walk, treeVars, codecVars, moreVars>>

\* Model::apply_transform on the subobjects; the header and the other
\* entities of the Model are not part of the state
ApplyTransform ==
    \E matrix \in Mat4s :
        LET r == Model_apply_transform(sub_objects, matrix)
        IN  /\ last.fault = "none"
            /\ ops < MaxXforms
            /\ ops' = ops + 1
            /\ sub_objects' = r.so
            /\ last' = [op |-> "apply_transform", matrix |-> matrix, fault |-> r.fault,
                        calls |-> r.calls, before |-> sub_objects]
            /\ UNCHANGED <<walk, treeVars, codecVars, moreVars>>

NextXform == ApplySubobjTransform \/ SubobjMoveOnlyOffset \/ ApplyTransform

SpecXform == InitXform /\ [][NextXform]_vars

(***************************************************************************)
(* The other composite encoders                                            *)
(***************************************************************************)
V20_02 == 2002
V20_04 == 2004

RECURSIVE Flatten(_)
\* the writes of the elements, one after the other
Flatten(items) == IF items = <<>> THEN <<>> ELSE Head(items) \o Flatten(Tail(items))

\* a Vec<T> or slice: the count as u32, then each element
Vec_write_to(items) == u32_write_to(Len(items)) \o Flatten(items)

\* mk_struct PathPoint: position, radius, turrets
PathPoint_write_to(self) ==
    Vec3d_write_to(self.position)
    \o f32_write_to(self.radius)
    \o Vec_write_to([i \in DOMAIN self.turrets |-> ObjectId_write_to(self.turrets[i])])

Path_write_to(self, version) ==
    String_write_to(self.name)
    \o (IF version >= V20_02 THEN String_write_to(self.parent) ELSE <<>>)
    \o Vec_write_to([i \in DOMAIN self.points |-> PathPoint_write_to(self.points[i])])

ThrusterGlow_write_to(self, version) ==
    Vec3d_write_to(self.position)
    \o NormalVec3_write_to(self.normal)
    \o (IF version > V20_04 THEN f32_write_to(self.radius) ELSE <<>>)

ThrusterBank_write_to(self, version) ==
    u32_write_to(Len(self.glows))
    \o (IF version >= V21_17 THEN String_write_to(self.properties) ELSE <<>>)
    \o Flatten([i \in DOMAIN self.glows |-> ThrusterGlow_write_to(self.glows[i], version)])

\* mk_struct GlowPoint: position, normal, radius
GlowPoint_write_to(self) ==
    Vec3d_write_to(self.position) \o Vec3d_write_to(self.normal) \o f32_write_to(self.radius)

GlowPointBank_write_to(self) ==
    i32_write_to(self.disp_time)
    \o u32_write_to(self.on_time)
    \o u32_write_to(self.off_time)
    \o ObjectId_write_to(self.obj_parent)
    \o u32_write_to(self.lod)
    \o u32_write_to(self.glow_type)
    \o u32_write_to(Len(self.glow_points))
    \o String_write_to(self.properties)
    \o Flatten([i \in DOMAIN self.glow_points |-> GlowPoint_write_to(self.glow_points[i])])

\* PolyVertex<()>: vertex_id, then the two halves of uv
PolyVertex_write_to(self) ==
    u32_write_to(self.vertex_id) \o f32_write_to(self.uv[1]) \o f32_write_to(self.uv[2])

Insignia_write_to(self) ==
    u32_write_to(self.detail_level)
    \o u32_write_to(Len(self.faces))
    \o Vec_write_to([i \in DOMAIN self.vertices |-> Vec3d_write_to(self.vertices[i])])
    \o Vec3d_write_to(self.offset)
    \o Flatten([i \in DOMAIN self.faces |->
                  PolyVertex_write_to(self.faces[i][1])
                  \o PolyVertex_write_to(self.faces[i][2])
                  \o PolyVertex_write_to(self.faces[i][3])])

\* mk_struct DockingPoint: position, normal
DockingPoint_write_to(self) ==
    Vec3d_write_to(self.position) \o Vec3d_write_to(self.normal)

Dock_write_to(self) ==
    String_write_to(self.properties)
    \o (IF self.path = None
        THEN u32_write_to(0)
        ELSE Vec_write_to(<<u32_write_to(unwrap(self.path))>>))
    \o Vec_write_to(<<
         DockingPoint_write_to([position |-> VSub(self.position, self.uvec),
                                normal |-> self.fvec]),
         DockingPoint_write_to([position |-> VAdd(self.position, self.uvec),
                                normal |-> self.fvec])>>)

\* the length of the buffer write_shield_node filled, then the buffer
ShieldNode_write_to(buf) == u32_write_to(Len(buf)) \o <<buf>>

(***************************************************************************)
(* A sink that fails                                                       *)
(***************************************************************************)
\* w: &mut impl Write.  The sink reports a failure on its fail_at-th write,
\* having accepted `part` bytes of it, and accepts every other write whole.
NewSink(fail_at, part) ==
    [bytes |-> <<>>, calls |-> 0, fail_at |-> fail_at, part |-> part, ret |-> "Ok"]

\* one write to the sink and its io::Result
sink_write(w, buf) ==
    IF w.calls + 1 = w.fail_at
    THEN [w EXCEPT !.calls = @ + 1,
                   !.bytes = @ \o SubSeq(buf, 1, Min(w.part, Len(buf))),
                   !.ret = "Err"]
    ELSE [w EXCEPT !.calls = @ + 1, !.bytes = @ \o buf, !.ret = "Ok"]

RECURSIVE writes_ignoring_failure(_, _)
\* every write issued whatever the ones before it returned
writes_ignoring_failure(w, writes) ==
    IF writes = <<>> THEN w
    ELSE LET w1 == sink_write(w, Head(writes))
             w2 == writes_ignoring_failure(w1, Tail(writes))
         IN  IF w1.ret = "Err" THEN [w2 EXCEPT !.ret = "Err"] ELSE w2

RECURSIVE try_writes(_, _)
\* write_to(w)?; ... : an Err is returned at once, the writes after it are
\* not issued
try_writes(w, writes) ==
    IF writes = <<>> THEN w
    ELSE LET w1 == sink_write(w, Head(writes))
         IN  IF w1.ret = "Err" THEN w1 ELSE try_writes(w1, Tail(writes))

(***************************************************************************)
(* SpecSink: the version register is set, then a composite value is        *)
(* written to a fresh sink that may fail.                                  *)
(***************************************************************************)
\* what a call of write_to leaves: the sink's bytes and the call's outcome
WriteTo(ty, writes) ==
    \E fail_at \in 1 .. Len(writes) + 1 :
      \E part \in IF fail_at > Len(writes) THEN {0} ELSE {0, 1} :
        LET w == try_writes(NewSink(fail_at, part), writes)
        IN  /\ sink' = w.bytes
            /\ enc' = [ty |-> ty, ret |-> w.ret, calls |-> w.calls,
                       fail_at |-> fail_at, part |-> part, writes |-> writes]
            /\ UNCHANGED <<VERSION, hierVars, walk, treeVars, moreVars>>

GlowPointWriteTo ==
    \E self \in {[position |-> <<1, 2, 3>>, normal |-> <<0, 0, 1>>, radius |-> 2]} :
        WriteTo("GlowPoint", GlowPoint_write_to(self))

SubObjectWriteTo ==
    \E self \in SubObjects :
        self.bbox = BBOX_EMPTY /\ self.parent = None
        /\ WriteTo("SubObject", SubObject_write_to(self, VERSION, <<0, 0, 0, 0, 8, 0, 0, 0>>))

PathWriteTo ==
    \E self \in {[name |-> <<36, 112>>, parent |-> <<97>>,
                  points |-> <<[position |-> <<1, 2, 3>>, radius |-> 4,
                                turrets |-> <<1>>]>>]} :
        WriteTo("Path", Path_write_to(self, VERSION))

ThrusterBankWriteTo ==
    \E self \in {[properties |-> <<36, 120>>,
                  glows |-> <<[position |-> <<1, 2, 3>>, normal |-> <<0, 0, -1>>,
                               radius |-> 2],
                              [position |-> <<-1, 2, 3>>, normal |-> <<0, 0, -1>>,
                               radius |-> 1]>>]} :
        WriteTo("ThrusterBank", ThrusterBank_write_to(self, VERSION))

GlowPointBankWriteTo ==
    \E self \in {[disp_time |-> -1, on_time |-> 2, off_time |-> 3, obj_parent |-> 1,
                  lod |-> 0, glow_type |-> 1, properties |-> <<36, 120>>,
                  glow_points |-> <<[position |-> <<1, 2, 3>>, normal |-> <<0, 0, 0>>,
                                     radius |-> 2]>>]} :
        WriteTo("GlowPointBank", GlowPointBank_write_to(self))

InsigniaWriteTo ==
    \E self \in {[detail_level |-> 1,
                  vertices |-> <<<<0, 0, 0>>, <<1, 0, 0>>>>,
                  offset |-> <<1, 2, 3>>,
                  faces |-> <<<<[vertex_id |-> 0, uv |-> <<0, 0>>],
                                [vertex_id |-> 1, uv |-> <<1, 0>>],
                                [vertex_id |-> 0, uv |-> <<0, 1>>]>>>>]} :
        WriteTo("Insignia", Insignia_write_to(self))

DockWriteTo ==
    \E path \in {None, Some(1)} :
        WriteTo("Dock",
                Dock_write_to([properties |-> <<36, 120>>, path |-> path,
                               position |-> <<1, 2, 3>>, fvec |-> <<0, 0, 1>>,
                               uvec |-> <<0, 1, 0>>]))

WeaponHardpointWriteTo ==
    \E self \in WeaponHardpoints :
        self.offset = 2 /\ WriteTo("WeaponHardpoint", WeaponHardpoint_write_to(self, VERSION))

BspDataWriteTo ==
    \E buf \in BspBufs : WriteTo("BspData", BspData_write_to(buf))

ShieldNodeWriteTo ==
    \E buf \in BspBufs : WriteTo("ShieldNode", ShieldNode_write_to(buf))

NextSink ==
    \/ SetVersion
    \/ GlowPointWriteTo
    \/ SubObjectWriteTo
    \/ PathWriteTo
    \/ ThrusterBankWriteTo
    \/ GlowPointBankWriteTo
    \/ InsigniaWriteTo
    \/ DockWriteTo
    \/ WeaponHardpointWriteTo
    \/ BspDataWriteTo
    \/ ShieldNodeWriteTo

SpecSink == InitCodec /\ [][NextSink]_vars

(***************************************************************************)
(* The property text.  A text, a field and a value are the sequences of    *)
(* the character codes of the strings; all characters are ASCII, so byte   *)
(* indices and character positions agree.  Indices count from 0 as in the  *)
(* source.                                                                 *)
(***************************************************************************)
\* the most characters a text starts with, and the most updates made to it
MaxText == 3
MaxUpdates == 1

\* char::is_ascii_control: U+0000 to U+001F and U+007F
is_ascii_control(c) == c < 32 \/ c = 127

\* char::is_whitespace, on ASCII: tab, line feed, vertical tab, form feed,
\* carriage return and space
is_whitespace(c) == c \in {9, 10, 11, 12, 13, 32}

\* c == '=' || c == ':' || (c.is_whitespace() && c != '\n')
is_separator(c) == c = 61 \/ c = 58 \/ (is_whitespace(c) /\ c # 10)

\* &s[a..b]
slice(s, a, b) == SubSeq(s, a + 1, b)

\* str::find: the index of the first occurrence
str_find(s, pat) ==
    IF Occurrences(s, pat) = {} THEN None ELSE Some(Least(Occurrences(s, pat)) - 1)

\* s[from..].chars().position(|d| d.is_ascii_control())
control_position(s, from) ==
    LET at == {i \in from .. Len(s) - 1 : is_ascii_control(s[i + 1])}
    IN  IF at = {} THEN None ELSE Some(Least(at) - from)

RECURSIVE trim_start(_)
trim_start(s) ==
    IF s # <<>> /\ is_whitespace(Head(s)) THEN trim_start(Tail(s)) ELSE s

RECURSIVE trim_end(_)
trim_end(s) ==
    IF s # <<>> /\ is_whitespace(s[Len(s)]) THEN trim_end(SubSeq(s, 1, Len(s) - 1)) ELSE s

\* str::trim
trim(s) == trim_end(trim_start(s))

RECURSIVE skip_separators(_, _)
\* the while loop of properties_find_field: start_idx moves over every
\* '=', ':' and whitespace that is not a line feed
skip_separators(props, start_idx) ==
    IF start_idx < Len(props) /\ is_separator(props[start_idx + 1])
    THEN skip_separators(props, start_idx + 1)
    ELSE start_idx

\* Some((start_idx, end_idx)), or None
properties_find_field(props, field) ==
    IF str_find(props, field) = None THEN None
    ELSE LET start_idx == unwrap(str_find(props, field))
             end_idx == IF control_position(props, start_idx) # None
                        THEN start_idx + unwrap(control_position(props, start_idx))
                        ELSE Len(props)
         IN  Some(<<skip_separators(props, start_idx + Len(field)), end_idx>>)

\* what a call returned, or that it panicked
Returned(value) == [fault |-> "none", value |-> value]
Panicked == [fault |-> "panic", value |-> None]

\* &properties[start_idx..end_idx] panics when start_idx > end_idx
properties_get_field(props, field) ==
    IF properties_find_field(props, field) = None THEN Returned(None)
    ELSE LET start_idx == unwrap(properties_find_field(props, field))[1]
             end_idx == unwrap(properties_find_field(props, field))[2]
         IN  IF start_idx > end_idx THEN Panicked
             ELSE Returned(Some(slice(props, start_idx, end_idx)))

RECURSIVE delete_end(_, _, _, _)
\* the while loop of properties_delete_field: chars runs from start_idx
delete_end(props, start_idx, end_idx, n) ==
    IF end_idx < Len(props) /\ is_ascii_control(props[start_idx + n + 1])
    THEN delete_end(props, start_idx, end_idx + 1, n + 1)
    ELSE end_idx

properties_delete_field(props, field) ==
    IF str_find(props, field) = None THEN props
    ELSE LET start_idx == unwrap(str_find(props, field))
             end_idx == IF control_position(props, start_idx) # None
                        THEN start_idx + unwrap(control_position(props, start_idx))
                        ELSE Len(props)
         IN  trim(slice(props, 0, start_idx)
                  \o slice(props, delete_end(props, start_idx, end_idx, 0), Len(props)))

\* the text properties_update_field leaves
properties_update_field(props, field, val) ==
    IF val = <<>> THEN properties_delete_field(props, field)
    ELSE IF props = <<>> THEN field \o <<61>> \o val
    ELSE IF properties_find_field(props, field) # None
    THEN LET start_idx == unwrap(properties_find_field(props, field))[1]
             end_idx == unwrap(properties_find_field(props, field))[2]
         IN  slice(props, 0, start_idx) \o val \o slice(props, end_idx, Len(props))
    ELSE props \o <<10>> \o field \o <<61>> \o val

(***************************************************************************)
(* SpecProps: a property text is looked up and updated.                    *)
(***************************************************************************)
\* 'k', 'v', '=', ' ', tab and line feed
TextChars == {107, 118, 61, 32, 9, 10}

\* "k" and "vk"
Fields == {<<107>>, <<118, 107>>}

\* "", "v", "v " and " v"
Values == {<<>>, <<118>>, <<118, 32>>, <<32, 118>>}

InitProps ==
    /\ properties \in SeqsUpTo(TextChars, MaxText)
    /\ propop = NoProp
    /\ NormIdle
    /\ ModelIdle
    /\ ThreadsIdle
    /\ HierIdle
    /\ TreeIdle
    /\ CodecIdle

PropertiesGetField ==
    \E field \in Fields :
        /\ propop' = [op |-> "get", field |-> field, val |-> <<>>, before |-> properties,
                      ret |-> properties_get_field(properties, field),
                      updates |-> propop.updates]
        /\ UNCHANGED <<properties, hierVars, walk, treeVars, codecVars, threads, normVars, modVars>>

PropertiesUpdateField ==
    \E field \in Fields, val \in Values :
        /\ propop.updates < MaxUpdates
        /\ properties' = properties_update_field(properties, field, val)
        /\ propop' = [op |-> "update", field |-> field, val |-> val, before |-> properties,
                      ret |-> Returned(None), updates |-> propop.updates + 1]
        /\ UNCHANGED <<hierVars, walk, treeVars, codecVars, threads, normVars, modVars>>

NextProps == PropertiesGetField \/ PropertiesUpdateField

SpecProps == InitProps /\ [][NextProps]_vars

(***************************************************************************)
(* Normalized directions.  The directions and the columns of the matrices  *)
(* of this part lie along the coordinate axes, where the unit vector of a  *)
(* vector is the vector of the signs of its coordinates.                   *)
(***************************************************************************)
\* Mul<f32> for Vec3d
VMul(v, k) == <<v[1] * k, v[2] * k, v[3] * k>>

Sign(x) == IF x > 0 THEN 1 ELSE IF x < 0 THEN -1 ELSE 0

\* v / |v| for a vector along an axis
normalized(v) == <<Sign(v[1]), Sign(v[2]), Sign(v[3])>>

\* try_normalize(min_norm): None when the norm is at most min_norm, which
\* among integer vectors is the zero vector alone
try_normalize(v) == IF magnitude_squared(v) = 0 THEN None ELSE Some(normalized(v))

\* NormalVec3::default()
NormalVec3_default == <<0, 0, 1>>

\* TryFrom<Vec3d> for NormalVec3: Ok(n) is Some(n), Err(()) is None
NormalVec3_try_from(value) == try_normalize(value)

mat4_rotation_and_scaling_only(matrix) ==
    append_translation(matrix, VNeg(translation_of(matrix)))

\* arr.swap(a, b)
swap(arr, a, b) == [arr EXCEPT ![a] = arr[b], ![b] = arr[a]]

RECURSIVE reject(_, _, _)
\* elt -= basis_element * elt.dot(basis_element), for the first n of basis
reject(elt, basis, n) ==
    IF n = 0 THEN elt
    ELSE LET e == reject(elt, basis, n - 1)
         IN  VSub(e, VMul(basis[n], Dot(e, basis[n])))

RECURSIVE orthonormalize_from(_, _, _)
\* Vec3::orthonormalize(&mut arr): vs[i] loses its components along the
\* basis found so far and, when something is left of it, is normalized and
\* swapped into the basis; a vector nothing is left of stays zero
orthonormalize_from(vs, i, nbasis_elements) ==
    IF i > Len(vs) \/ nbasis_elements = 3 THEN vs
    ELSE LET elt == reject(vs[i], vs, nbasis_elements)
         IN  IF try_normalize(elt) # None
             THEN orthonormalize_from(
                      swap([vs EXCEPT ![i] = unwrap(try_normalize(elt))],
                           nbasis_elements + 1, i),
                      i + 1, nbasis_elements + 1)
             ELSE orthonormalize_from([vs EXCEPT ![i] = elt], i + 1, nbasis_elements)

\* matrix.transform_vector(&Vec3::x()), ::y(), ::z(): the columns
column(matrix, j) == <<matrix.l[1][j], matrix.l[2][j], matrix.l[3][j]>>

\* TMat3::from_columns(&arr).to_homogeneous()
from_columns(arr) ==
    [l |-> <<<<arr[1][1], arr[2][1], arr[3][1]>>,
             <<arr[1][2], arr[2][2], arr[3][2]>>,
             <<arr[1][3], arr[2][3], arr[3][3]>>>>,
     t |-> ZERO]

mat4_rotation_only(matrix) ==
    LET m == mat4_rotation_and_scaling_only(matrix)
    IN  from_columns(orthonormalize_from(<<column(m, 1), column(m, 2), column(m, 3)>>, 1, 0))

\* (&matrix * normal.0).try_into() with matrix = mat4_rotation_only(..)
rotated(matrix, normal) ==
    NormalVec3_try_from(transform_point(mat4_rotation_only(matrix), normal))

\* What a call leaves: self, whether it panicked, whether a try_from in it
\* returned Err.  unwrap() panics on Err with self.normal not yet assigned.
EyePoint_apply_transform(self, matrix) ==
    LET normal == rotated(matrix, self.normal)
    IN  [self |-> [self EXCEPT !.position = transform_point(matrix, @),
                               !.normal = IF normal = None THEN @ ELSE unwrap(normal)],
         fault |-> IF normal = None THEN "panic" ELSE "none",
         failed |-> normal = None]

WeaponHardpoint_apply_transform(self, matrix) ==
    LET normal == rotated(matrix, self.normal)
    IN  [self |-> [self EXCEPT !.position = transform_point(matrix, @),
                               !.normal = IF normal = None THEN @ ELSE unwrap(normal)],
         fault |-> IF normal = None THEN "panic" ELSE "none",
         failed |-> normal = None]

\* powf(1. / 3.) of the determinants the matrices of this part have
cube_root(n) == CHOOSE r \in 0 .. n : r * r * r = n

Abs(x) == IF x < 0 THEN -x ELSE x

ThrusterGlow_apply_transform(self, matrix) ==
    LET normal == rotated(matrix, self.normal)
    IN  [self |-> [self EXCEPT !.position = transform_point(matrix, @),
                               !.radius = @ * cube_root(Abs(determinant(matrix.l))),
                               !.normal = IF normal = None THEN @ ELSE unwrap(normal)],
         fault |-> IF normal = None THEN "panic" ELSE "none",
         failed |-> normal = None]

Turret_apply_transform(self, matrix) ==
    LET m == mat4_rotation_and_scaling_only(matrix)
        normal == rotated(m, self.normal)
    IN  [self |-> [self EXCEPT !.fire_points =
                                   [i \in DOMAIN @ |-> transform_point(m, @[i])],
                               !.normal = IF normal = None THEN @ ELSE unwrap(normal)],
         fault |-> IF normal = None THEN "panic" ELSE "none",
         failed |-> normal = None]

Dock_apply_transform(self, matrix) ==
    LET fvec == rotated(matrix, self.fvec)
        uvec == rotated(matrix, self.uvec)
    IN  [self |-> [self EXCEPT !.position = transform_point(matrix, @),
                               !.fvec = IF fvec = None THEN @ ELSE unwrap(fvec),
                               !.uvec = IF fvec = None \/ uvec = None THEN @
                                        ELSE unwrap(uvec)],
         fault |-> IF fvec = None \/ uvec = None THEN "panic" ELSE "none",
         failed |-> fvec = None \/ uvec = None]

\* Dock::orthonormalize: ret is what it returns, failed whether its first
\* try_into returned Err
Dock_orthonormalize(xvec, fvec) ==
    LET first == NormalVec3_try_from(VSub(xvec, VMul(fvec, Dot(xvec, fvec))))
        yvec == <<0, 1, 0>>
        second == NormalVec3_try_from(VSub(yvec, VMul(fvec, Dot(yvec, fvec))))
    IN  [ret |-> IF first # None THEN unwrap(first)
                 ELSE IF second # None THEN unwrap(second)
                 ELSE NormalVec3_default,
         failed |-> first = None]

\* glm::rotate_vec3(v, ang, normal) for ang a number of quarter turns
rotate_vec3(v, quarters, normal) ==
    LET cos == <<1, 0, -1, 0>>[(quarters % 4) + 1]
        sin == <<0, 1, 0, -1>>[(quarters % 4) + 1]
    IN  VAdd(VAdd(VMul(v, cos), VMul(Cross(normal, v), sin)),
             VMul(normal, Dot(normal, v) * (1 - cos)))

Dock_set_uvec_angle(self, ang) ==
    LET fvec == IF try_normalize(self.fvec) = None THEN <<1, 0, 0>>
                ELSE unwrap(try_normalize(self.fvec))
        uvec == Dock_orthonormalize(<<0, 0, 1>>, fvec)
        turned == NormalVec3_try_from(rotate_vec3(uvec.ret, ang, fvec))
    IN  [self |-> [self EXCEPT !.uvec = IF turned = None THEN NormalVec3_default
                                        ELSE unwrap(turned)],
         fault |-> "none",
         failed |-> uvec.failed \/ turned = None]

(***************************************************************************)
(* SpecNorm: entities with a direction are transformed.                    *)
(***************************************************************************)
\* a translation, a quarter turn with a translation, a scaling, the
\* projection onto the xy plane and the projection onto the yz plane
NormMats ==
    { [l |-> IDENTITY3, t |-> <<1, 0, -2>>],
      [l |-> <<<<0, -1, 0>>, <<1, 0, 0>>, <<0, 0, 1>>>>, t |-> <<1, 0, -2>>],
      [l |-> <<<<2, 0, 0>>, <<0, 2, 0>>, <<0, 0, 2>>>>, t |-> ZERO],
      [l |-> <<<<1, 0, 0>>, <<0, 1, 0>>, <<0, 0, 0>>>>, t |-> ZERO],
      [l |-> <<<<0, 0, 0>>, <<0, 1, 0>>, <<0, 0, 1>>>>, t |-> ZERO] }

Dirs == {<<0, 0, 1>>, <<0, 1, 0>>, <<-1, 0, 0>>}

Entities ==
    [ty : {"EyePoint", "WeaponHardpoint"}, position : {<<1, 2, 3>>}, normal : Dirs]
    \cup [ty : {"ThrusterGlow"}, position : {<<1, 2, 3>>}, normal : Dirs, radius : {2}]
    \cup [ty : {"Turret"}, fire_points : {<<<<1, 0, 0>>, <<1, 0, 1>>>>}, normal : Dirs]
    \cup {d \in [ty : {"Dock"}, position : {<<1, 2, 3>>}, fvec : Dirs, uvec : Dirs] :
            Dot(d.fvec, d.uvec) = 0}

InitNorm ==
    /\ entity \in Entities
    /\ normop = NoNorm
    /\ PropsIdle
    /\ ModelIdle
    /\ ThreadsIdle
    /\ HierIdle
    /\ TreeIdle
    /\ CodecIdle

\* a call is made while none has panicked
CanCall == normop.fault = "none" /\ normop.calls < MaxXforms

Called(op, r) ==
    /\ entity' = r.self
    /\ normop' = [op |-> op, fault |-> r.fault, failed |-> r.failed,
                  calls |-> normop.calls + 1]
    /\ UNCHANGED <<hierVars, walk, treeVars, codecVars, threads, propVars, modVars>>

NormalVec3TryFrom ==
    \E value \in {ZERO, <<0, 0, 2>>, <<-3, 0, 0>>} :
        /\ CanCall
        /\ Called("try_from", [self |-> entity, fault |-> "none",
                               failed |-> NormalVec3_try_from(value) = None])

EyePointApplyTransform ==
    \E matrix \in NormMats :
        /\ CanCall /\ entity.ty = "EyePoint"
        /\ Called("apply_transform", EyePoint_apply_transform(entity, matrix))

WeaponHardpointApplyTransform ==
    \E matrix \in NormMats :
        /\ CanCall /\ entity.ty = "WeaponHardpoint"
        /\ Called("apply_transform", WeaponHardpoint_apply_transform(entity, matrix))

ThrusterGlowApplyTransform ==
    \E matrix \in NormMats :
        /\ CanCall /\ entity.ty = "ThrusterGlow"
        /\ Called("apply_transform", ThrusterGlow_apply_transform(entity, matrix))

TurretApplyTransform ==
    \E matrix \in NormMats :
        /\ CanCall /\ entity.ty = "Turret"
        /\ Called("apply_transform", Turret_apply_transform(entity, matrix))

DockApplyTransform ==
    \E matrix \in NormMats :
        /\ CanCall /\ entity.ty = "Dock"
        /\ Called("apply_transform", Dock_apply_transform(entity, matrix))

DockOrthonormalize ==
    \E xvec \in Dirs, fvec \in Dirs :
        /\ CanCall /\ entity.ty = "Dock"
        /\ Called("orthonormalize",
                  [self |-> [entity EXCEPT !.uvec = Dock_orthonormalize(xvec, fvec).ret],
                   fault |-> "none", failed |-> Dock_orthonormalize(xvec, fvec).failed])

DockSetUvecAngle ==
    \E ang \in 0 .. 3 :
        /\ CanCall /\ entity.ty = "Dock"
        /\ Called("set_uvec_angle", Dock_set_uvec_angle(entity, ang))

NextNorm ==
    \/ NormalVec3TryFrom
    \/ EyePointApplyTransform
    \/ WeaponHardpointApplyTransform
    \/ ThrusterGlowApplyTransform
    \/ TurretApplyTransform
    \/ DockApplyTransform
    \/ DockOrthonormalize
    \/ DockSetUvecAngle

SpecNorm == InitNorm /\ [][NextNorm]_vars

(***************************************************************************)
(* Tree construction over IEEE 754 values.  A coordinate is a finite       *)
(* integer, INF, -INF or NAN; the operators of this part follow f32 where  *)
(* the ones above assume finite coordinates.                               *)
(***************************************************************************)
\* f32::NAN: a value apart from the finite and the infinite ones
NAN == INF + INF

is_nan(x) == x = NAN
is_infinite(x) == x = INF \/ x = -INF

\* Neg for f32
f32_neg(a) == IF is_nan(a) THEN NAN ELSE -a

\* a + b: NaN in, NaN out; the sum of opposite infinities is NaN
f32_add(a, b) ==
    IF is_nan(a) \/ is_nan(b) THEN NAN
    ELSE IF is_infinite(a) THEN (IF b = -a THEN NAN ELSE a)
    ELSE IF is_infinite(b) THEN b
    ELSE a + b

f32_sub(a, b) == f32_add(a, f32_neg(b))

\* a * b: NaN in, NaN out; zero times an infinity is NaN
f32_mul(a, b) ==
    IF is_nan(a) \/ is_nan(b) THEN NAN
    ELSE IF is_infinite(a) \/ is_infinite(b)
         THEN (IF a = 0 \/ b = 0 THEN NAN ELSE IF (a > 0) = (b > 0) THEN INF ELSE -INF)
    ELSE a * b

\* f32::min and f32::max: a NaN argument is ignored
f32_min(a, b) == IF is_nan(a) THEN b ELSE IF is_nan(b) THEN a ELSE Min(a, b)
f32_max(a, b) == IF is_nan(a) THEN b ELSE IF is_nan(b) THEN a ELSE Max(a, b)

\* f32::partial_cmp: None when an argument is NaN, else Less (-1), Equal
\* (0) or Greater (1)
partial_cmp(a, b) ==
    IF is_nan(a) \/ is_nan(b) THEN None
    ELSE Some(IF a < b THEN -1 ELSE IF a = b THEN 0 ELSE 1)

ieee_expand_vec(bbox, vec) ==
    [min |-> [k \in 1 .. 3 |-> f32_min(bbox.min[k], vec[k])],
     max |-> [k \in 1 .. 3 |-> f32_max(bbox.max[k], vec[k])]]

ieee_expand_bbox(self, bbox) ==
    [min |-> [k \in 1 .. 3 |-> f32_min(self.min[k], bbox.min[k])],
     max |-> [k \in 1 .. 3 |-> f32_max(self.max[k], bbox.max[k])]]

RECURSIVE ieee_from_vectors(_, _)
\* the fold of from_vectors over the first i vectors
ieee_from_vectors(vecs, i) ==
    IF i = 0 THEN BBOX_EMPTY ELSE ieee_expand_vec(ieee_from_vectors(vecs, i - 1), vecs[i])

RECURSIVE ieee_from_bboxes(_, _)
ieee_from_bboxes(bboxes, i) ==
    IF i = 0 THEN BBOX_EMPTY ELSE ieee_expand_bbox(ieee_from_bboxes(bboxes, i - 1), bboxes[i])

ieee_pad(bbox, p) ==
    [min |-> [k \in 1 .. 3 |-> f32_sub(bbox.min[k], p)],
     max |-> [k \in 1 .. 3 |-> f32_add(bbox.max[k], p)]]

ieee_size_on_axis(bbox, axis) == f32_sub(bbox.max[axis], bbox.min[axis])

\* greatest_dimension: max_by compares X with Y and the greater with Z;
\* unwrap() panics when partial_cmp returns None
ieee_greatest_dimension(bbox) ==
    LET size(axis) == ieee_size_on_axis(bbox, axis)
        xy == IF size(2) >= size(1) THEN 2 ELSE 1
    IN  IF partial_cmp(size(1), size(2)) = None \/ partial_cmp(size(xy), size(3)) = None
        THEN [fault |-> "panic", axis |-> 1]
        ELSE [fault |-> "none", axis |-> IF size(3) >= size(xy) THEN 3 ELSE xy]

RECURSIVE ieee_sum(_, _)
\* the += of Vec3d::average over the first i vectors
ieee_sum(vecs, i) ==
    IF i = 0 THEN ZERO
    ELSE [k \in 1 .. 3 |-> f32_add(ieee_sum(vecs, i - 1)[k], vecs[i][k])]

\* Vec3d::average, kept as the sum and the count it is divided by
ieee_average(vecs) == [sum |-> ieee_sum(vecs, Len(vecs)), n |-> Len(vecs)]

\* sum / n of one centre against sum / n of another: both brought to the
\* common denominator, an infinity or a NaN staying what it is
scaled(x, k) == IF is_nan(x) \/ is_infinite(x) THEN x ELSE x * k

\* a.center[axis].partial_cmp(&b.center[axis])
center_partial_cmp(a, b, axis) ==
    partial_cmp(scaled(a.sum[axis], b.n), scaled(b.sum[axis], a.n))

RECURSIVE ieee_insert_sorted(_, _, _)
\* x put behind every element that is not Greater than it
ieee_insert_sorted(sorted, x, axis) ==
    IF sorted = <<>> THEN <<x>>
    ELSE LET lst == sorted[Len(sorted)]
         IN  IF center_partial_cmp(lst.center, x.center, axis) # Some(1)
             THEN Append(sorted, x)
             ELSE Append(ieee_insert_sorted(SubSeq(sorted, 1, Len(sorted) - 1), x, axis), lst)

RECURSIVE ieee_sort_by_center(_, _, _)
\* slice::sort_by on the first i elements: a stable sort
ieee_sort_by_center(infos, i, axis) ==
    IF i = 0 THEN <<>>
    ELSE ieee_insert_sorted(ieee_sort_by_center(infos, i - 1, axis), infos[i], axis)

\* the comparator of sort_by is called on every element of a slice of two
\* or more: its unwrap() panics when a centre coordinate is NaN
sort_panics(infos, axis) ==
    Len(infos) >= 2 /\ \E k \in DOMAIN infos : is_nan(infos[k].center.sum[axis])

ieee_cross(a, b) ==
    <<f32_sub(f32_mul(a[2], b[3]), f32_mul(a[3], b[2])),
      f32_sub(f32_mul(a[3], b[1]), f32_mul(a[1], b[3])),
      f32_sub(f32_mul(a[1], b[2]), f32_mul(a[2], b[1]))>>

ieee_vsub(a, b) == [k \in 1 .. 3 |-> f32_sub(a[k], b[k])]

\* the vector handed to normalize(), as face_normal
ieee_face_normal(pts) ==
    IF Len(pts) = 3 THEN ieee_cross(ieee_vsub(pts[1], pts[2]), ieee_vsub(pts[2], pts[3]))
    ELSE LET n == Len(pts)
             at(i) == pts[((i - 1) % n) + 1]
         IN  ieee_sum([i \in 1 .. n |->
                          ieee_cross(ieee_vsub(at(i), at(i + 1)),
                                     ieee_vsub(at(i + 1), at(i + 2)))], n)

\* the closure of the first pass of BspData::recalculate; item is what the
\* leaf holds
ieee_bsp_poly_info(verts, poly) ==
    LET pts == PolyPoints(verts, poly.verts)
    IN  [center |-> ieee_average(pts),
         bbox |-> ieee_pad(ieee_from_vectors(pts, Len(pts)), PAD),
         item |-> [poly EXCEPT !.normal = ieee_face_normal(pts)]]

ieee_shield_poly_info(verts, polygons, i) ==
    LET pts == PolyPoints(verts, polygons[i + 1].verts)
    IN  [center |-> ieee_average(pts),
         bbox |-> ieee_pad(ieee_from_vectors(pts, Len(pts)), PAD),
         item |-> <<i>>]

RECURSIVE ieee_recalc_recurse(_)
\* recalc_recurse of BspData::recalculate and of
\* ShieldData::recalculate_tree: the tree, or the panic of an unwrap()
ieee_recalc_recurse(infos) ==
    IF Len(infos) = 1
    THEN [fault |-> "none",
          tree |-> [tag |-> "Leaf", bbox |-> infos[1].bbox, item |-> infos[1].item]]
    ELSE LET bbox == ieee_pad(ieee_from_bboxes([k \in DOMAIN infos |-> infos[k].bbox],
                                               Len(infos)), PAD)
             dim == ieee_greatest_dimension(bbox)
         IN  IF dim.fault = "panic" \/ sort_panics(infos, dim.axis)
             THEN [fault |-> "panic", tree |-> [tag |-> "Empty"]]
             ELSE LET sorted == ieee_sort_by_center(infos, Len(infos), dim.axis)
                      halfpoint == Len(sorted) \div 2
                      front == ieee_recalc_recurse(SubSeq(sorted, 1, halfpoint))
                      back == ieee_recalc_recurse(SubSeq(sorted, halfpoint + 1, Len(sorted)))
                  IN  IF front.fault = "panic" \/ back.fault = "panic"
                      THEN [fault |-> "panic", tree |-> [tag |-> "Empty"]]
                      ELSE [fault |-> "none",
                            tree |-> [tag |-> "Split", bbox |-> bbox,
                                      front |-> front.tree, back |-> back.tree]]

ieee_BspData_recalculate(verts, polygons) ==
    IF polygons = <<>> THEN [fault |-> "none", tree |-> BspEmpty]
    ELSE ieee_recalc_recurse([k \in DOMAIN polygons |-> ieee_bsp_poly_info(verts, polygons[k])])

ieee_ShieldData_recalculate_tree(verts, polygons) ==
    IF polygons = <<>>
    THEN [fault |-> "none", tree |-> [tag |-> "Leaf", bbox |-> BBOX_ZERO, item |-> <<>>]]
    ELSE ieee_recalc_recurse([k \in DOMAIN polygons |->
                                 ieee_shield_poly_info(verts, polygons, k - 1)])

(***************************************************************************)
(* SpecDegenerate: trees are built over degenerate geometry.               *)
(***************************************************************************)
\* vertex pools: one NaN coordinate; every x infinite; opposite infinities;
\* coincident vertices; four points in general position
DegeneratePools ==
    { (0 :> <<NAN, 0, 0>> @@ 1 :> <<100, 0, 0>> @@ 2 :> <<0, 0, 0>> @@ 3 :> <<0, 50, 0>>),
      (0 :> <<INF, 0, 0>> @@ 1 :> <<INF, 100, 0>> @@ 2 :> <<INF, 0, 100>> @@ 3 :> <<INF, 50, 50>>),
      (0 :> <<INF, 0, 0>> @@ 1 :> <<-INF, 0, 0>> @@ 2 :> <<0, 0, 0>> @@ 3 :> <<0, 50, 0>>),
      (0 :> <<50, 50, 50>> @@ 1 :> <<50, 50, 50>> @@ 2 :> <<50, 50, 50>> @@ 3 :> <<50, 50, 50>>),
      (0 :> <<0, 0, 0>> @@ 1 :> <<400, 0, 0>> @@ 2 :> <<0, 300, 0>> @@ 3 :> <<0, 0, 200>>) }

InitDegenerate ==
    /\ kind \in {"bsp", "shield"}
    /\ data_verts \in DegeneratePools
    /\ soup \in SeqsUpTo(IF kind = "bsp" THEN BspPolygons ELSE ShieldPolygons, MaxPolys)
    /\ tree = [tag |-> "Empty"]
    /\ input = <<>>
    /\ treeop = NoTreeOp
    /\ edits = 0
    /\ HierIdle
    /\ CodecIdle
    /\ MoreIdle

\* BspData::recalculate on the polygon soup; a panic leaves no tree
DegenerateBspRecalculate ==
    /\ kind = "bsp"
    /\ treeop.op = "none"
    /\ tree' = ieee_BspData_recalculate(data_verts, soup).tree
    /\ input' = soup
    /\ treeop' = [op |-> "recalculate", runs |-> 0,
                  fault |-> ieee_BspData_recalculate(data_verts, soup).fault]
    /\ UNCHANGED <<kind, data_verts, soup, edits, hierVars, walk, codecVars, moreVars>>

DegenerateShieldRecalculateTree ==
    /\ kind = "shield"
    /\ treeop.op = "none"
    /\ tree' = ieee_ShieldData_recalculate_tree(data_verts, soup).tree
    /\ input' = soup
    /\ treeop' = [op |-> "recalculate", runs |-> 0,
                  fault |-> ieee_ShieldData_recalculate_tree(data_verts, soup).fault]
    /\ UNCHANGED <<kind, data_verts, soup, edits, hierVars, walk, codecVars, moreVars>>

NextDegenerate == DegenerateBspRecalculate \/ DegenerateShieldRecalculateTree

SpecDegenerate == InitDegenerate /\ [][NextDegenerate]_vars

(***************************************************************************)
(* Model::do_for_recursive_subobj_children and its caller                  *)
(* Model::surface_area_average_pos                                         *)
(***************************************************************************)
RECURSIVE do_for_recursive_subobj_children(_, _)
\* the subobjects f is invoked on, in order: f(id), then for every child
\* f(child) followed by the recursive call on the child
do_for_recursive_subobj_children(so, id) ==
    <<id>> \o Flatten([k \in DOMAIN so[id].children |->
                          <<so[id].children[k]>>
                              \o do_for_recursive_subobj_children(so, so[id].children[k])])

\* SubObject::surface_area_average_pos: the area of the subobject's own
\* polygons and their average position; subobject id has area id + 1 and
\* its polygons lie around its offset
SubObject_surface_area_average_pos(subobj) ==
    [this_area |-> subobj.obj_id + 1, this_avg |-> subobj.offset]

RECURSIVE accumulate(_, _, _)
\* the closure of surface_area_average_pos run on the first n visits
accumulate(so, visits, n) ==
    IF n = 0 THEN [surface_area |-> 0, weighted_avg |-> ZERO]
    ELSE LET acc == accumulate(so, visits, n - 1)
             s == SubObject_surface_area_average_pos(so[visits[n]])
         IN  [surface_area |-> acc.surface_area + s.this_area,
              weighted_avg |-> VAdd(acc.weighted_avg,
                                    [k \in 1 .. 3 |-> s.this_avg[k] * s.this_area])]

\* Model::surface_area_average_pos: the average position is weighted_avg
\* divided by surface_area, kept as the two
Model_surface_area_average_pos(so, detail_levels) ==
    IF detail_levels = <<>> THEN [surface_area |-> 0, weighted_avg |-> ZERO]
    ELSE LET visits == do_for_recursive_subobj_children(so, detail_levels[1])
         IN  accumulate(so, visits, Len(visits))

(***************************************************************************)
(* SpecVisit: the traversal and the surface area on a consistent model.    *)
(***************************************************************************)
InitVisit ==
    /\ sub_objects \in ConsistentModels
    /\ last = NoCall
    /\ ops = 0
    /\ walk = WalkIdle
    /\ TreeIdle
    /\ CodecIdle
    /\ MoreIdle

\* f records the obj_id of the subobject it is given
DoForRecursiveSubobjChildren ==
    \E id \in ObjIds :
        /\ ops < MaxOps
        /\ ops' = ops + 1
        /\ last' = [op |-> "do_for_recursive_subobj_children", a |-> id, b |-> 0,
                    ret |-> do_for_recursive_subobj_children(sub_objects, id),
                    fault |-> "none"]
        /\ UNCHANGED <<sub_objects, walk, treeVars, codecVars, moreVars>>

\* header.detail_levels is empty or starts with any subobject
SurfaceAreaAveragePos ==
    \E detail_levels \in SeqsUpTo(ObjIds, 1) :
        /\ ops < MaxOps
        /\ ops' = ops + 1
        /\ last' = [op |-> "surface_area_average_pos", a |-> detail_levels, b |-> 0,
                    ret |-> Model_surface_area_average_pos(sub_objects, detail_levels),
                    fault |-> "none"]
        /\ UNCHANGED <<sub_objects, walk, treeVars, codecVars, moreVars>>

NextVisit == DoForRecursiveSubobjChildren \/ SurfaceAreaAveragePos

SpecVisit == InitVisit /\ [][NextVisit]_vars

(***************************************************************************)
(* Model::recheck_warnings                                                 *)
(***************************************************************************)
MAX_EYES == 9
MAX_TURRET_POINTS == 10
MAX_TEXTURES == 64
MAX_NAME_LEN == 31
MAX_PROPERTIES_LEN == 255

\* "$name" and "$parent_submodel"
STR_NAME == <<36, 110, 97, 109, 101>>
STR_PARENT_SUBMODEL ==
    <<36, 112, 97, 114, 101, 110, 116, 95, 115, 117, 98, 109, 111, 100, 101, 108>>

\* a Warning: the variant and its fields, the fields as a tuple (an Option
\* as None or Some, WeaponOffsetInvalidVersion as primary, bank, point with
\* primary 1 for true, a String as its characters)
Warning(ty, arg) == [ty |-> ty, arg |-> arg]

\* slice::get with a 0-based index
get(s, i) == IF i < Len(s) THEN Some(s[i + 1]) ELSE None

\* Option::map_or(false, f) where f(x) is the value `then`
map_or_false(o, then) == o # None /\ then

BoundingBox_is_inverted(bbox) == \E k \in 1 .. 3 : bbox.max[k] < bbox.min[k]

BoundingBox_contains(bbox, vec) ==
    \A k \in 1 .. 3 : ~(vec[k] < bbox.min[k] \/ vec[k] > bbox.max[k])

\* Vec3d::is_null on the integer coordinates of the model
is_null(v) == v = ZERO

\* vert.magnitude() > (1.0 + f32::EPSILON) * radius, on integer coordinates
\* and a radius that is not negative
beyond_radius(vert, radius) == Dot(vert, vert) > radius * radius

\* Itertools::duplicates: every value that occurs more than once
duplicates(s) == {x \in Range(s) : Count(s, x) > 1}

radius_test_failed(self, subobj_opt) ==
    IF subobj_opt # None
    THEN LET subobj == self.sub_objects[unwrap(subobj_opt)]
         IN  \E k \in DOMAIN subobj.verts : beyond_radius(subobj.verts[k], subobj.radius)
    ELSE /\ self.header.detail_levels # <<>>
         /\ \E id \in DOMAIN self.sub_objects :
                /\ is_obj_id_ancestor(self.sub_objects, id, self.header.detail_levels[1]) = "true"
                /\ \E k \in DOMAIN self.sub_objects[id].verts :
                       beyond_radius(VAdd(self.sub_objects[id].verts[k],
                                          get_total_subobj_offset(self.sub_objects, id)),
                                     self.header.max_radius)

bbox_test_failed(self, subobj_opt) ==
    IF subobj_opt # None
    THEN LET subobj == self.sub_objects[unwrap(subobj_opt)]
         IN  \E k \in DOMAIN subobj.verts : ~BoundingBox_contains(subobj.bbox, subobj.verts[k])
    ELSE /\ self.header.detail_levels # <<>>
         /\ \E id \in DOMAIN self.sub_objects :
                /\ is_obj_id_ancestor(self.sub_objects, id, self.header.detail_levels[1]) = "true"
                /\ \E k \in DOMAIN self.sub_objects[id].verts :
                       ~BoundingBox_contains(self.header.bbox,
                                             VAdd(get_total_subobj_offset(self.sub_objects, id),
                                                  self.sub_objects[id].verts[k]))

get_obj_id_by_name(self, name) ==
    LET named == {id \in DOMAIN self.sub_objects : self.sub_objects[id].name = name}
    IN  IF named = {} THEN None ELSE Some(Least(named))

\* properties_get_field(&dock.properties, "$name").unwrap_or_default().len()
\*     > MAX_NAME_LEN
dock_name_too_long(dock) ==
    LET found == properties_get_field(dock.properties, STR_NAME).value
    IN  Len(IF found = None THEN <<>> ELSE unwrap(found)) > MAX_NAME_LEN

\* properties_get_field(&dock.properties, "$parent_submodel")
\*     .map_or(false, |name| self.get_obj_id_by_name(name).is_none())
dock_parent_invalid(self, dock) ==
    LET found == properties_get_field(dock.properties, STR_PARENT_SUBMODEL).value
    IN  found # None /\ get_obj_id_by_name(self, unwrap(found)) = None

\* the match of the Set::One branch
failed_check(self, warning) ==
    LET ty == warning.ty
        arg == warning.arg
        idx == arg[1]
    IN  CASE ty = "RadiusTooSmall" -> radius_test_failed(self, arg)
          [] ty = "BBoxTooSmall" -> bbox_test_failed(self, arg)
          [] ty = "DockingBayWithoutPath" ->
                 map_or_false(get(self.docking_bays, idx), self.docking_bays[idx + 1].path = None)
          [] ty = "ThrusterPropertiesInvalidVersion" ->
                 /\ self.version <= V21_16
                 /\ map_or_false(get(self.thruster_banks, idx),
                                 self.thruster_banks[idx + 1].properties # <<>>)
          [] ty = "WeaponOffsetInvalidVersion" ->
                 /\ self.version <= V21_17 \/ self.version = V22_00
                 /\ LET weps == IF arg[1] = 1 THEN self.primary_weps ELSE self.secondary_weps
                    IN  /\ arg[2] < Len(weps)
                        /\ map_or_false(get(weps[arg[2] + 1], arg[3]),
                                        weps[arg[2] + 1][arg[3] + 1].offset # 0)
          [] ty = "SubObjectTranslationInvalidVersion" ->
                 self.version < V23_01 /\ self.sub_objects[idx].translation_axis # -1
          [] ty = "InvertedBBox" ->
                 IF arg # None THEN BoundingBox_is_inverted(self.sub_objects[idx].bbox)
                 ELSE BoundingBox_is_inverted(self.header.bbox)
          [] ty = "UntexturedPolygons" -> self.untextured_idx # None
          [] ty = "TooManyEyePoints" -> Len(self.eye_points) > MAX_EYES
          [] ty = "TooManyTextures" -> Len(self.textures) > MAX_TEXTURES
          [] ty = "TooFewTurretFirePoints" ->
                 map_or_false(get(self.turrets, idx), self.turrets[idx + 1].fire_points = <<>>)
          [] ty = "TooManyTurretFirePoints" ->
                 map_or_false(get(self.turrets, idx),
                              Len(self.turrets[idx + 1].fire_points) > MAX_TURRET_POINTS)
          [] ty = "DuplicatePathName" ->
                 Cardinality({k \in DOMAIN self.paths : self.paths[k].name = arg}) > 1
          [] ty = "DuplicateDetailLevel" -> Count(self.header.detail_levels, idx) > 1
          [] ty = "PathNameTooLong" ->
                 map_or_false(get(self.paths, idx), Len(self.paths[idx + 1].name) > MAX_NAME_LEN)
          [] ty = "SubObjectNameTooLong" -> Len(self.sub_objects[idx].name) > MAX_NAME_LEN
          [] ty = "SpecialPointNameTooLong" ->
                 map_or_false(get(self.special_points, idx),
                              Len(self.special_points[idx + 1].name) > MAX_NAME_LEN)
          [] ty = "DockingBayNameTooLong" ->
                 map_or_false(get(self.docking_bays, idx),
                              dock_name_too_long(self.docking_bays[idx + 1]))
          [] ty = "GlowBankPropertiesTooLong" ->
                 map_or_false(get(self.glow_banks, idx),
                              Len(self.glow_banks[idx + 1].properties) > MAX_PROPERTIES_LEN)
          [] ty = "ThrusterPropertiesTooLong" ->
                 map_or_false(get(self.thruster_banks, idx),
                              Len(self.thruster_banks[idx + 1].properties) > MAX_PROPERTIES_LEN)
          [] ty = "SubObjectPropertiesTooLong" ->
                 Len(self.sub_objects[idx].properties) > MAX_PROPERTIES_LEN
          [] ty = "DockingBayPropertiesTooLong" ->
                 map_or_false(get(self.docking_bays, idx),
                              Len(self.docking_bays[idx + 1].properties) > MAX_PROPERTIES_LEN)
          [] ty = "SpecialPointPropertiesTooLong" ->
                 map_or_false(get(self.special_points, idx),
                              Len(self.special_points[idx + 1].properties) > MAX_PROPERTIES_LEN)
          [] ty = "InvalidDockParentSubmodel" ->
                 map_or_false(get(self.docking_bays, idx),
                              dock_parent_invalid(self, self.docking_bays[idx + 1]))
          [] ty = "Detail0NonZeroOffset" ->
                 map_or_false(get(self.header.detail_levels, 0),
                              ~is_null(self.sub_objects[self.header.detail_levels[1]].offset))

\* if failed { self.warnings.insert(warning) }
insert_if(failed, warning) == IF failed THEN {warning} ELSE {}

\* the slicing in properties_get_field panics on the text of the bay
name_lookup_panics(dock) == properties_get_field(dock.properties, STR_NAME).fault = "panic"
parent_lookup_panics(dock) ==
    properties_get_field(dock.properties, STR_PARENT_SUBMODEL).fault = "panic"

\* the Set::One branch panics inside properties_get_field
single_check_panics(self, warning) ==
    /\ warning.ty \in {"DockingBayNameTooLong", "InvalidDockParentSubmodel"}
    /\ get(self.docking_bays, warning.arg[1]) # None
    /\ IF warning.ty = "DockingBayNameTooLong"
       THEN name_lookup_panics(self.docking_bays[warning.arg[1] + 1])
       ELSE parent_lookup_panics(self.docking_bays[warning.arg[1] + 1])

\* the Set::All branch up to the loop over the docking bays
warnings_before_docks(self) ==
    insert_if(radius_test_failed(self, None),
                  Warning("RadiusTooSmall", None))
    \cup insert_if(bbox_test_failed(self, None),
                  Warning("BBoxTooSmall", None))
    \cup insert_if(BoundingBox_is_inverted(self.header.bbox) /\ self.header.bbox # BBOX_EMPTY,
                  Warning("InvertedBBox", None))
    \cup {Warning("BBoxTooSmall", Some(id)) :
              id \in {i \in DOMAIN self.sub_objects : bbox_test_failed(self, Some(i))}}
    \cup {Warning("RadiusTooSmall", Some(id)) :
              id \in {i \in DOMAIN self.sub_objects : radius_test_failed(self, Some(i))}}
    \cup {Warning("InvertedBBox", Some(id)) :
              id \in {i \in DOMAIN self.sub_objects :
                         /\ BoundingBox_is_inverted(self.sub_objects[i].bbox)
                         /\ self.sub_objects[i].bbox # BBOX_EMPTY}}
    \cup {Warning("SubObjectNameTooLong", <<id>>) :
              id \in {i \in DOMAIN self.sub_objects :
                         Len(self.sub_objects[i].name) > MAX_NAME_LEN}}
    \cup {Warning("SubObjectPropertiesTooLong", <<id>>) :
              id \in {i \in DOMAIN self.sub_objects :
                         Len(self.sub_objects[i].properties) > MAX_PROPERTIES_LEN}}
    \cup {Warning("SubObjectTranslationInvalidVersion", <<id>>) :
              id \in {i \in DOMAIN self.sub_objects :
                         self.version < V23_01 /\ self.sub_objects[i].translation_axis # -1}}

\* the four checks of the loop over the docking bays, for bay i; the
\* checks after the first `done` are not reached
dock_warnings(self, i, done) ==
    LET dock == self.docking_bays[i + 1]
    IN  insert_if(dock.path = None,
                  Warning("DockingBayWithoutPath", <<i>>))
        \cup insert_if(Len(dock.properties) > MAX_PROPERTIES_LEN,
                  Warning("DockingBayPropertiesTooLong", <<i>>))
        \cup insert_if(done >= 3 /\ dock_name_too_long(dock),
                  Warning("DockingBayNameTooLong", <<i>>))
        \cup insert_if(done >= 4 /\ dock_parent_invalid(self, dock),
                  Warning("InvalidDockParentSubmodel", <<i>>))

\* the Set::All branch after the loop over the docking bays
warnings_after_docks(self) ==
    {Warning("ThrusterPropertiesInvalidVersion", <<i - 1>>) :
         i \in {k \in DOMAIN self.thruster_banks :
                   self.thruster_banks[k].properties # <<>> /\ self.version <= V21_16}}
    \cup {Warning("ThrusterPropertiesTooLong", <<i - 1>>) :
              i \in {k \in DOMAIN self.thruster_banks :
                        /\ self.thruster_banks[k].properties # <<>>
                        /\ Len(self.thruster_banks[k].properties) > MAX_PROPERTIES_LEN}}
    \cup (IF self.version <= V21_17 \/ self.version = V22_00
          THEN UNION {{Warning("WeaponOffsetInvalidVersion", <<1, i - 1, j - 1>>) :
                          j \in {p \in DOMAIN self.primary_weps[i] :
                                    self.primary_weps[i][p].offset # 0}}
                         : i \in DOMAIN self.primary_weps}
               \cup UNION {{Warning("WeaponOffsetInvalidVersion", <<0, i - 1, j - 1>>) :
                               j \in {p \in DOMAIN self.secondary_weps[i] :
                                         self.secondary_weps[i][p].offset # 0}}
                              : i \in DOMAIN self.secondary_weps}
          ELSE {})
    \cup {Warning("TooFewTurretFirePoints", <<i - 1>>) :
              i \in {k \in DOMAIN self.turrets : self.turrets[k].fire_points = <<>>}}
    \cup {Warning("TooManyTurretFirePoints", <<i - 1>>) :
              i \in {k \in DOMAIN self.turrets :
                        /\ self.turrets[k].fire_points # <<>>
                        /\ Len(self.turrets[k].fire_points) > MAX_TURRET_POINTS}}
    \cup {Warning("GlowBankPropertiesTooLong", <<i - 1>>) :
              i \in {k \in DOMAIN self.glow_banks :
                        Len(self.glow_banks[k].properties) > MAX_PROPERTIES_LEN}}
    \cup {Warning("SpecialPointNameTooLong", <<i - 1>>) :
              i \in {k \in DOMAIN self.special_points :
                        Len(self.special_points[k].name) > MAX_NAME_LEN}}
    \cup {Warning("SpecialPointPropertiesTooLong", <<i - 1>>) :
              i \in {k \in DOMAIN self.special_points :
                        Len(self.special_points[k].properties) > MAX_PROPERTIES_LEN}}
    \cup {Warning("PathNameTooLong", <<i - 1>>) :
              i \in {k \in DOMAIN self.paths : Len(self.paths[k].name) > MAX_NAME_LEN}}
    \cup {Warning("DuplicatePathName", name) :
              name \in duplicates([k \in DOMAIN self.paths |-> self.paths[k].name])}
    \cup insert_if(/\ self.header.detail_levels # <<>>
                   /\ ~is_null(self.sub_objects[self.header.detail_levels[1]].offset),
                   Warning("Detail0NonZeroOffset", <<>>))
    \cup {Warning("DuplicateDetailLevel", <<id>>) : id \in duplicates(self.header.detail_levels)}
    \cup insert_if(self.untextured_idx # None,
                  Warning("UntexturedPolygons", <<>>))
    \cup insert_if(Len(self.eye_points) > MAX_EYES,
                  Warning("TooManyEyePoints", <<>>))
    \cup insert_if(Len(self.textures) > MAX_TEXTURES,
                  Warning("TooManyTextures", <<>>))

\* Model::recheck_warnings(Set::One(warning)), or Set::All when
\* warning_to_check is None: the Model after it, and whether it panicked
recheck_warnings(self, warning_to_check) ==
    IF warning_to_check # None
    THEN LET warning == unwrap(warning_to_check)
         IN  IF single_check_panics(self, warning) THEN [self |-> self, fault |-> "panic"]
             ELSE LET existing_warning == warning \in self.warnings
                      failed == failed_check(self, warning)
                  IN  [self |-> [self EXCEPT !.warnings =
                                    IF existing_warning /\ ~failed THEN @ \ {warning}
                                    ELSE IF ~existing_warning /\ failed THEN @ \cup {warning}
                                    ELSE @],
                       fault |-> "none"]
    ELSE LET bays == 0 .. Len(self.docking_bays) - 1
             panicking == {i \in bays : \/ name_lookup_panics(self.docking_bays[i + 1])
                                        \/ parent_lookup_panics(self.docking_bays[i + 1])}
         IN  IF panicking = {}
             THEN [self |-> [self EXCEPT !.warnings =
                               warnings_before_docks(self)
                               \cup UNION {dock_warnings(self, i, 4) : i \in bays}
                               \cup warnings_after_docks(self)],
                   fault |-> "none"]
             ELSE LET stop == Least(panicking)
                  IN  [self |-> [self EXCEPT !.warnings =
                                    warnings_before_docks(self)
                                    \cup UNION {dock_warnings(self, i, 4) : i \in 0 .. stop - 1}
                                    \cup dock_warnings(self, stop,
                                            IF name_lookup_panics(self.docking_bays[stop + 1])
                                            THEN 2 ELSE 3)],
                       fault |-> "panic"]

(***************************************************************************)
(* SpecWarn: the warnings of a Model are rechecked, all at once or one at  *)
(* a time.                                                                 *)
(***************************************************************************)
\* a text of n characters without a field name or a control character
Str(n) == [i \in 1 .. n |-> 97]

\* what a Model can have that a warning is about
Facts ==
    {"hdr_radius_small", "hdr_bbox_small", "hdr_bbox_inverted", "hdr_bbox_empty",
     "sub_radius_small", "sub_bbox_small", "sub_bbox_inverted", "sub_bbox_empty",
     "sub_name_long", "sub_props_long", "sub_translation_type", "sub_translation_axis",
     "dock_no_path", "dock_props_long", "dock_name_long", "dock_bad_parent", "dock_tab",
     "thruster_props", "thruster_props_long", "primary_offset", "secondary_offset",
     "turret_no_points", "turret_many_points", "glow_props_long",
     "special_name_long", "special_props_long", "path_name_long", "path_dup_name",
     "detail0_offset", "dup_detail", "no_detail", "untextured", "many_eyes",
     "many_textures"}

\* the Models the specification starts from have none of them, one of them,
\* or one of these pairs
FactSets ==
    {{}} \cup {{x} : x \in Facts}
    \cup {{"sub_translation_type", "sub_translation_axis"},
          {"hdr_bbox_empty", "sub_bbox_empty"},
          {"primary_offset", "secondary_offset"},
          {"thruster_props", "primary_offset"},
          {"dock_no_path", "dock_bad_parent"}}

\* the versions on either side of the versions the checks compare with
WarnVersions == {V21_16, V21_17, V21_18, V22_00, V23_01}

\* a Model of two subobjects (1 the child of 0), one docking bay, thruster
\* bank, turret, glow bank and special point, two paths, a weapon bank of
\* one point of each kind; f says what it has that a warning is about
MkPof(version, f) ==
    LET has(x) == x \in f
        box == [min |-> <<-1, -1, -1>>, max |-> <<3, 3, 3>>]
        hardpoint(off) == [position |-> <<1, 2, 3>>, normal |-> <<0, 0, 1>>, offset |-> off]
    IN  [version |-> version,
         header |->
             [bbox |-> IF has("hdr_bbox_empty") THEN BBOX_EMPTY
                       ELSE IF has("hdr_bbox_inverted")
                            THEN [min |-> <<10, -10, -10>>, max |-> <<-10, 10, 10>>]
                       ELSE IF has("hdr_bbox_small")
                            THEN [min |-> <<-1, -1, -1>>, max |-> <<1, 1, 1>>]
                       ELSE [min |-> <<-10, -10, -10>>, max |-> <<10, 10, 10>>],
              detail_levels |-> IF has("no_detail") THEN <<>>
                                ELSE IF has("dup_detail") THEN <<0, 0>> ELSE <<0>>,
              max_radius |-> IF has("hdr_radius_small") THEN 1 ELSE 20],
         sub_objects |->
             (0 :> [obj_id |-> 0, parent |-> None,
                    offset |-> IF has("detail0_offset") THEN <<0, 1, 0>> ELSE ZERO,
                    radius |-> 4, geo_center |-> <<1, 1, 1>>, bbox |-> box,
                    verts |-> <<<<1, 2, 2>>>>, name |-> <<97>>, properties |-> <<>>,
                    rotation_type |-> 1, rotation_axis |-> -1,
                    translation_type |-> -1, translation_axis |-> -1]
              @@ 1 :> [obj_id |-> 1, parent |-> Some(0), offset |-> <<1, 0, 0>>,
                       radius |-> IF has("sub_radius_small") THEN 1 ELSE 4,
                       geo_center |-> <<1, 1, 1>>,
                       bbox |-> IF has("sub_bbox_empty") THEN BBOX_EMPTY
                                ELSE IF has("sub_bbox_inverted")
                                     THEN [min |-> <<3, -1, -1>>, max |-> <<-1, 3, 3>>]
                                ELSE IF has("sub_bbox_small")
                                     THEN [min |-> <<-1, -1, -1>>, max |-> <<1, 1, 1>>]
                                ELSE box,
                       verts |-> <<<<2, 0, 0>>>>,
                       name |-> IF has("sub_name_long") THEN Str(MAX_NAME_LEN + 1) ELSE <<98>>,
                       properties |-> IF has("sub_props_long") THEN Str(MAX_PROPERTIES_LEN + 1)
                                      ELSE <<>>,
                       rotation_type |-> 1, rotation_axis |-> -1,
                       translation_type |-> IF has("sub_translation_type") THEN 1 ELSE -1,
                       translation_axis |-> IF has("sub_translation_axis") THEN 0 ELSE -1]),
         textures |-> [i \in 1 .. (IF has("many_textures") THEN MAX_TEXTURES + 1 ELSE 1) |->
                          <<116>>],
         paths |-> <<[name |-> IF has("path_name_long") THEN Str(MAX_NAME_LEN + 1) ELSE <<112>>],
                     [name |-> IF has("path_dup_name") THEN <<112>> ELSE <<113>>]>>,
         special_points |->
             <<[name |-> IF has("special_name_long") THEN Str(MAX_NAME_LEN + 1) ELSE <<115>>,
                properties |-> IF has("special_props_long") THEN Str(MAX_PROPERTIES_LEN + 1)
                               ELSE <<>>]>>,
         eye_points |-> [i \in 1 .. (IF has("many_eyes") THEN MAX_EYES + 1 ELSE 1) |->
                            [attached_subobj |-> 0]],
         primary_weps |-> <<<<hardpoint(IF has("primary_offset") THEN 2 ELSE 0)>>>>,
         secondary_weps |-> <<<<hardpoint(IF has("secondary_offset") THEN 2 ELSE 0)>>>>,
         turrets |->
             <<[fire_points |->
                    [i \in 1 .. (IF has("turret_no_points") THEN 0
                                 ELSE IF has("turret_many_points") THEN MAX_TURRET_POINTS + 1
                                 ELSE 1) |-> ZERO]]>>,
         thruster_banks |->
             <<[properties |-> IF has("thruster_props_long") THEN Str(MAX_PROPERTIES_LEN + 1)
                               ELSE IF has("thruster_props") THEN <<36, 101>> ELSE <<>>,
                glows |-> <<[position |-> <<1, 2, 3>>, normal |-> <<0, 0, 1>>, radius |-> 2]>>]>>,
         glow_banks |->
             <<[properties |-> IF has("glow_props_long") THEN Str(MAX_PROPERTIES_LEN + 1)
                               ELSE <<>>]>>,
         docking_bays |->
             <<[properties |->
                    IF has("dock_props_long") THEN Str(MAX_PROPERTIES_LEN + 1)
                    ELSE IF has("dock_tab") THEN STR_NAME \o <<9>>
                    ELSE IF has("dock_name_long") THEN STR_NAME \o <<61>> \o Str(MAX_NAME_LEN + 1)
                    ELSE STR_NAME \o <<61, 100, 10>> \o STR_PARENT_SUBMODEL
                             \o <<61, IF has("dock_bad_parent") THEN 122 ELSE 97>>,
                path |-> IF has("dock_no_path") THEN None ELSE Some(0)]>>,
         untextured_idx |-> IF has("untextured") THEN Some(1) ELSE None,
         warnings |-> {}]

\* every Warning about an entity of the Model
WarningsAbout(self) ==
    LET indexed(ty, s) == {Warning(ty, <<i - 1>>) : i \in DOMAIN s}
        ids(ty) == {Warning(ty, <<id>>) : id \in DOMAIN self.sub_objects}
        opts(ty) == {Warning(ty, None)} \cup {Warning(ty, Some(id)) : id \in DOMAIN self.sub_objects}
    IN  opts("RadiusTooSmall") \cup opts("BBoxTooSmall") \cup opts("InvertedBBox")
        \cup {Warning("UntexturedPolygons", <<>>), Warning("TooManyEyePoints", <<>>),
              Warning("TooManyTextures", <<>>), Warning("Detail0NonZeroOffset", <<>>)}
        \cup indexed("DockingBayWithoutPath", self.docking_bays)
        \cup indexed("DockingBayNameTooLong", self.docking_bays)
        \cup indexed("DockingBayPropertiesTooLong", self.docking_bays)
        \cup indexed("InvalidDockParentSubmodel", self.docking_bays)
        \cup indexed("ThrusterPropertiesInvalidVersion", self.thruster_banks)
        \cup indexed("ThrusterPropertiesTooLong", self.thruster_banks)
        \cup {Warning("WeaponOffsetInvalidVersion", <<1, i - 1, j - 1>>) :
                  i \in DOMAIN self.primary_weps, j \in DOMAIN self.primary_weps[1]}
        \cup {Warning("WeaponOffsetInvalidVersion", <<0, i - 1, j - 1>>) :
                  i \in DOMAIN self.secondary_weps, j \in DOMAIN self.secondary_weps[1]}
        \cup ids("SubObjectTranslationInvalidVersion") \cup ids("DuplicateDetailLevel")
        \cup ids("SubObjectNameTooLong") \cup ids("SubObjectPropertiesTooLong")
        \cup indexed("TooFewTurretFirePoints", self.turrets)
        \cup indexed("TooManyTurretFirePoints", self.turrets)
        \cup {Warning("DuplicatePathName", self.paths[i].name) : i \in DOMAIN self.paths}
        \cup indexed("PathNameTooLong", self.paths)
        \cup indexed("SpecialPointNameTooLong", self.special_points)
        \cup indexed("SpecialPointPropertiesTooLong", self.special_points)
        \cup indexed("GlowBankPropertiesTooLong", self.glow_banks)

InitWarn ==
    /\ model \in {MkPof(v, f) : v \in WarnVersions, f \in FactSets}
    /\ modelop = NoModelOp
    /\ PropsIdle
    /\ NormIdle
    /\ ThreadsIdle
    /\ HierIdle
    /\ TreeIdle
    /\ CodecIdle

\* a call has panicked
ModelPanicked == modelop.op # "none" /\ modelop.fault = "panic"

RecheckWarningsAll ==
    /\ ~ModelPanicked
    /\ model' = recheck_warnings(model, None).self
    /\ modelop' = [op |-> "recheck_warnings", arg |-> None, before |-> model.warnings,
                   after_all |-> FALSE, fault |-> recheck_warnings(model, None).fault]
    /\ UNCHANGED <<hierVars, walk, treeVars, codecVars, threads, propVars, normVars>>

\* a single warning is rechecked on a Model just built or just rechecked
\* in full; after_all says which
RecheckWarningsOne ==
    \E warning \in WarningsAbout(model) :
        /\ ~ModelPanicked
        /\ modelop.op = "none" \/ (modelop.op = "recheck_warnings" /\ modelop.arg = None)
        /\ model' = recheck_warnings(model, Some(warning)).self
        /\ modelop' = [op |-> "recheck_warnings", arg |-> Some(warning),
                       before |-> model.warnings, after_all |-> modelop.op # "none",
                       fault |-> recheck_warnings(model, Some(warning)).fault]
        /\ UNCHANGED <<hierVars, walk, treeVars, codecVars, threads, propVars, normVars>>

NextWarn == RecheckWarningsAll \/ RecheckWarningsOne

SpecWarn == InitWarn /\ [][NextWarn]_vars

(***************************************************************************)
(* Model::path_removal_fixup                                               *)
(***************************************************************************)
\* the loop body without the decrement of the higher indices
fixup_without_shift(bay, removed_idx) ==
    IF bay.path # None /\ unwrap(bay.path) = removed_idx THEN [bay EXCEPT !.path = None]
    ELSE bay

\* the body of the loop for one bay
fixup_bay(bay, removed_idx) ==
    IF bay.path # None
    THEN LET path_num == unwrap(bay.path)
         IN  IF removed_idx = path_num THEN [bay EXCEPT !.path = None]
             ELSE IF path_num > removed_idx THEN [bay EXCEPT !.path = Some(path_num - 1)]
             ELSE bay
    ELSE bay

path_removal_fixup(self, removed_idx) ==
    [self EXCEPT !.docking_bays =
        [i \in DOMAIN self.docking_bays |-> fixup_bay(self.docking_bays[i], removed_idx)]]

(***************************************************************************)
(* SpecPaths: path_removal_fixup is called for a path of a Model with up   *)
(* to MaxBays docking bays and up to MaxPaths paths.                       *)
(***************************************************************************)
MaxBays == 3
MaxPaths == 3

\* a docking bay has no path or the index of one; the index may name a
\* path the Model does not have
Bays == [path : {None} \cup {Some(p) : p \in 0 .. MaxPaths - 1}, properties : {<<>>}]

InitPaths ==
    /\ model \in [version : {LATEST},
                  paths : {[i \in 1 .. n |-> [name |-> <<112, 48 + i>>]] : n \in 1 .. MaxPaths},
                  docking_bays : SeqsUpTo(Bays, MaxBays)]
    /\ modelop = NoModelOp
    /\ PropsIdle
    /\ NormIdle
    /\ ThreadsIdle
    /\ HierIdle
    /\ TreeIdle
    /\ CodecIdle

\* the fixup for the removal of one of the paths; the caller removes the
\* path itself
PathRemovalFixup ==
    \E removed_idx \in 0 .. Len(model.paths) - 1 :
        /\ modelop.op = "none"
        /\ model' = path_removal_fixup(model, removed_idx)
        /\ modelop' = [op |-> "path_removal_fixup", removed_idx |-> removed_idx,
                       before |-> model.docking_bays]
        /\ UNCHANGED <<hierVars, walk, treeVars, codecVars, threads, propVars, normVars>>

NextPaths == PathRemovalFixup

SpecPaths == InitPaths /\ [][NextPaths]_vars

(***************************************************************************)
(* post_parse_fill_untextured_slot                                         *)
(***************************************************************************)
\* TextureId::UNTEXTURED is TextureId(u32::MAX): held as the greatest
\* integer the model has, above every index of a texture list; only its
\* order against those is used
UNTEXTURED == 2147483647

\* "Untextured"
STR_UNTEXTURED == <<85, 110, 116, 101, 120, 116, 117, 114, 101, 100>>

\* Iterator::position: the 0-based index of the first x
position(s, x) ==
    IF \E i \in DOMAIN s : s[i] = x THEN Some(Least({i \in DOMAIN s : s[i] = x}) - 1) ELSE None

RECURSIVE leaves_mut(_, _, _)
\* the loop over collision_tree.leaves_mut(): every leaf whose polygon has
\* a texture id of max_texture or more gets untextured_id
leaves_mut(node, max_texture, untextured_id) ==
    IF node.tag = "Split"
    THEN [node EXCEPT !.front = leaves_mut(node.front, max_texture, untextured_id),
                      !.back = leaves_mut(node.back, max_texture, untextured_id)]
    ELSE IF node.tag = "Leaf" /\ node.poly.texture >= max_texture
    THEN [node EXCEPT !.poly.texture = untextured_id]
    ELSE node

\* has_untextured after the loops
has_untextured(subobjs, max_texture) ==
    \E i \in DOMAIN subobjs :
        \E k \in DOMAIN bsp_leaves(subobjs[i].collision_tree) :
            bsp_leaves(subobjs[i].collision_tree)[k].poly.texture >= max_texture

\* the test poly.texture > max_texture in place of >=
fill_strictly_above(subobjs, textures) ==
    LET max_texture == Len(textures)
        untextured_id == IF position(textures, STR_UNTEXTURED) # None
                         THEN unwrap(position(textures, STR_UNTEXTURED)) ELSE max_texture
        filled == [i \in DOMAIN subobjs |->
                      [subobjs[i] EXCEPT !.collision_tree =
                          leaves_mut(@, max_texture + 1, untextured_id)]]
    IN  IF untextured_id < max_texture
        THEN [sub_objects |-> filled, textures |-> textures, ret |-> Some(untextured_id)]
        ELSE IF has_untextured(subobjs, max_texture + 1)
        THEN [sub_objects |-> filled, textures |-> Append(textures, STR_UNTEXTURED),
              ret |-> Some(untextured_id)]
        ELSE [sub_objects |-> filled, textures |-> textures, ret |-> None]

\* the subobjects and the texture list after the call, and what it returns
post_parse_fill_untextured_slot(subobjs, textures) ==
    LET max_texture == Len(textures)
        untextured_id == IF position(textures, STR_UNTEXTURED) # None
                         THEN unwrap(position(textures, STR_UNTEXTURED)) ELSE max_texture
        filled == [i \in DOMAIN subobjs |->
                      [subobjs[i] EXCEPT !.collision_tree =
                          leaves_mut(@, max_texture, untextured_id)]]
    IN  IF untextured_id < max_texture
        THEN [sub_objects |-> filled, textures |-> textures, ret |-> Some(untextured_id)]
        ELSE IF has_untextured(subobjs, max_texture)
        THEN [sub_objects |-> filled, textures |-> Append(textures, STR_UNTEXTURED),
              ret |-> Some(untextured_id)]
        ELSE [sub_objects |-> filled, textures |-> textures, ret |-> None]

(***************************************************************************)
(* SpecTex: post_parse_fill_untextured_slot is called, once or twice, on   *)
(* up to two subobjects and up to MaxTextures textures.                    *)
(***************************************************************************)
MaxTextures == 2

\* the texture ids a parsed polygon has: any index, in range or not, or
\* the sentinel
ParsedTextureIds == 0 .. MaxTextures \cup {UNTEXTURED}

TexPolygon(texture) == [verts |-> <<0, 1, 2>>, normal |-> <<0, 0, 1>>, texture |-> texture]

\* collision trees of no, one and two polygons
TexTrees ==
    {BspEmpty}
    \cup {BspLeaf(BBOX_ZERO, TexPolygon(t)) : t \in ParsedTextureIds}
    \cup {BspSplit(BBOX_ZERO, BspLeaf(BBOX_ZERO, TexPolygon(t)), BspLeaf(BBOX_ZERO, TexPolygon(u))) :
              t, u \in ParsedTextureIds}

InitTex ==
    /\ model \in [version : {LATEST},
                  sub_objects : SeqsUpTo([collision_tree : TexTrees], 2),
                  textures : SeqsUpTo({STR_UNTEXTURED, <<116>>}, MaxTextures)]
    /\ modelop = NoModelOp
    /\ PropsIdle
    /\ NormIdle
    /\ ThreadsIdle
    /\ HierIdle
    /\ TreeIdle
    /\ CodecIdle

\* the call; given is the Model the first call was made on, before the one
\* this call was made on, prev what the call before returned
PostParseFillUntexturedSlot ==
    LET r == post_parse_fill_untextured_slot(model.sub_objects, model.textures)
    IN  /\ IF modelop.op = "none" THEN TRUE ELSE modelop.calls < 2
        /\ model' = [model EXCEPT !.sub_objects = r.sub_objects, !.textures = r.textures]
        /\ modelop' = [op |-> "post_parse_fill_untextured_slot",
                       calls |-> IF modelop.op = "none" THEN 1 ELSE 2,
                       ret |-> r.ret,
                       prev |-> IF modelop.op = "none" THEN None ELSE modelop.ret,
                       before |-> model,
                       given |-> IF modelop.op = "none" THEN model ELSE modelop.given]
        /\ UNCHANGED <<hierVars, walk, treeVars, codecVars, threads, propVars, normVars>>

NextTex == PostParseFillUntexturedSlot

SpecTex == InitTex /\ [][NextTex]_vars

(***************************************************************************)
(* Claims about the hierarchy                                              *)
(***************************************************************************)
ParentOf(so) == [id \in DOMAIN so |-> so[id].parent]

\* the running call is is_obj_id_ancestor(A, C) with A.parent = B, B.parent = A,
\* A # B, and C not on that cycle
OnTwoCycleOffTarget ==
    /\ walk.pc = "loop"
    /\ \E B \in ObjIds \ {walk.obj_id, walk.maybe_ancestor} :
         /\ sub_objects[walk.obj_id].parent = Some(B)
         /\ sub_objects[B].parent = Some(walk.obj_id)

\* C1: is_obj_id_ancestor(A, C) on the two-element cycle A.parent = B,
\* B.parent = A with C off the cycle ends in the "cycle detected" panic; it
\* does not loop for ever.
C1_TwoCyclePanics == OnTwoCycleOffTarget ~> (walk.pc = "panicked")

\* C2: the parent relation stays acyclic under make_parent and make_orphan,
\* and make_parent(new_parent, new_child) returns None and changes nothing
\* when new_child is new_parent or one of its ancestors.
C2_AcyclicKept ==
    /\ [](Acyclic(sub_objects))
    /\ [][(/\ last'.op = "make_parent"
           /\ \/ last'.a = last'.b
              \/ last'.b \in AncestorsOf(sub_objects, last'.a, Cardinality(ObjIds)))
          => (last'.ret = "None" /\ last'.fault = "none" /\ sub_objects' = sub_objects)]_vars

\* make_parent has refused a child that is a proper ancestor of the parent,
\* after an earlier call built that chain
C2_Witness ==
    /\ last.op = "make_parent"
    /\ last.ret = "None"
    /\ last.a # last.b
    /\ last.b \in AncestorsOf(sub_objects, last.a, Cardinality(ObjIds))
    /\ ops >= 2

\* C3: after any calls of make_parent and make_orphan every children array
\* holds, once each, exactly the subobjects whose parent field names it.
C3_ChildrenMatchParents ==
    \A p \in ObjIds :
        /\ Range(sub_objects[p].children) = Range(recalc_all_children_ids(sub_objects)[p].children)
        /\ Len(sub_objects[p].children) = Cardinality(Range(sub_objects[p].children))

\* the set S of positions as the sequence in ascending order
AscSeq(S) == CHOOSE s \in Perms(S) : \A i, j \in DOMAIN s : i < j => s[i] < s[j]

\* children array c holds the obj_ids of the subobjects whose parent is P,
\* once each, in ascending order of position
IsRebuilt(so, P, c) ==
    LET kids == AscSeq({S \in DOMAIN so : so[S].parent = Some(P)})
    IN  c = [k \in DOMAIN kids |-> so[kids[k]].obj_id]

\* C4: after recalc_all_children_ids every children array lists the obj_id
\* of each subobject whose parent names it once, in ascending position, and
\* nothing else; the call changes no parent field and a second call changes
\* nothing.
C4_RecalcRebuilds ==
    /\ [](last.op = "recalc_all_children_ids" =>
            \A P \in ObjIds : IsRebuilt(sub_objects, P, sub_objects[P].children))
    /\ [][last'.op = "recalc_all_children_ids" =>
            /\ ParentOf(sub_objects') = ParentOf(sub_objects)
            /\ (last.op = "recalc_all_children_ids" => sub_objects' = sub_objects)]_vars

\* recalc_all_children_ids has run twice on a model with two siblings whose
\* children arrays were wrong before the first call
C4_Witness ==
    /\ last.op = "recalc_all_children_ids"
    /\ ops = 2
    /\ \E P \in ObjIds : Len(sub_objects[P].children) = 2

(***************************************************************************)
(* Claims about the trees                                                  *)
(***************************************************************************)
RECURSIVE NumLeaves(_)
\* the number of Leaf nodes of a BspNode or ShieldNode
NumLeaves(node) ==
    IF node.tag = "Split" THEN NumLeaves(node.front) + NumLeaves(node.back)
    ELSE IF node.tag = "Leaf" THEN 1
    ELSE 0

RECURSIVE BspLeafPolys(_)
\* the polygons in the leaves of a BspNode, as (vertex ids, texture)
BspLeafPolys(node) ==
    IF node.tag = "Split" THEN BspLeafPolys(node.front) \o BspLeafPolys(node.back)
    ELSE IF node.tag = "Leaf" THEN <<[verts |-> node.poly.verts, texture |-> node.poly.texture]>>
    ELSE <<>>

RECURSIVE ShieldLeafIds(_)
\* the polygon ids in the leaves of a ShieldNode
ShieldLeafIds(node) ==
    IF node.tag = "Split" THEN ShieldLeafIds(node.front) \o ShieldLeafIds(node.back)
    ELSE node.poly_list

\* the sequences s and t hold the same values the same number of times
SameBag(s, t) == \A x \in Range(s) \cup Range(t) : Count(s, x) = Count(t, x)

\* every polygon given to the construction is in exactly one leaf
EachInputInOneLeaf ==
    IF kind = "bsp"
    THEN SameBag(BspLeafPolys(tree),
                 [k \in DOMAIN input |-> [verts |-> input[k].verts, texture |-> input[k].texture]])
    ELSE SameBag(ShieldLeafIds(unwrap(tree)), [k \in DOMAIN input |-> k - 1])

TheTree == IF kind = "bsp" THEN tree ELSE unwrap(tree)

\* C5 as stated: the tree built from n >= 1 polygons has n Leaf nodes, each
\* polygon in exactly one of them, and the tree built from no polygon has no
\* Leaf node.
C5_LeafCountAsStated ==
    treeop.op = "recalculate" =>
        /\ input # <<>> => (NumLeaves(TheTree) = Len(input) /\ EachInputInOneLeaf)
        /\ input = <<>> => NumLeaves(TheTree) = 0

\* C5: the tree built from n >= 1 polygons has n Leaf nodes, each polygon in
\* exactly one of them; from no polygon BspData::recalculate builds Empty
\* (no Leaf node) and ShieldData::recalculate_tree builds one Leaf whose
\* poly_list is empty.
C5_LeafCount ==
    treeop.op = "recalculate" =>
        /\ input # <<>> => (NumLeaves(TheTree) = Len(input) /\ EachInputInOneLeaf)
        /\ (input = <<>> /\ kind = "bsp") => tree = BspEmpty
        /\ (input = <<>> /\ kind = "shield") =>
               (TheTree.tag = "Leaf" /\ TheTree.poly_list = <<>>)

\* a tree has been built from three polygons after the vertices were transformed
C5_Witness ==
    /\ treeop.op = "recalculate"
    /\ Len(input) = 3
    /\ edits = 1

BoxIn(inner, outer) ==
    \A k \in 1 .. 3 : outer.min[k] <= inner.min[k] /\ outer.max[k] >= inner.max[k]

VecIn(v, box) == \A k \in 1 .. 3 : box.min[k] <= v[k] /\ v[k] <= box.max[k]

RECURSIVE BspContained(_)
BspContained(node) ==
    IF node.tag = "Split" THEN
        /\ BoxIn(bsp_bbox(node.front), node.bbox)
        /\ BoxIn(bsp_bbox(node.back), node.bbox)
        /\ BspContained(node.front)
        /\ BspContained(node.back)
    ELSE IF node.tag = "Leaf" THEN
        \A k \in DOMAIN node.poly.verts : VecIn(data_verts[node.poly.verts[k]], node.bbox)
    ELSE TRUE

RECURSIVE ShieldContained(_)
ShieldContained(node) ==
    IF node.tag = "Split" THEN
        /\ BoxIn(node.front.bbox, node.bbox)
        /\ BoxIn(node.back.bbox, node.bbox)
        /\ ShieldContained(node.front)
        /\ ShieldContained(node.back)
    ELSE
        \A i \in DOMAIN node.poly_list :
            \A k \in 1 .. 3 : VecIn(data_verts[soup[node.poly_list[i] + 1].verts[k]], node.bbox)

\* C6: after a construction and after a bbox recomputation every Split's
\* bbox contains the bboxes of both children and every Leaf's bbox contains
\* the vertices its polygons name.
C6_BboxContainment ==
    treeop.op \in {"recalculate", "recalculate_bboxes", "apply_transform"} =>
        IF kind = "bsp" THEN BspContained(tree)
        ELSE tree # None => ShieldContained(unwrap(tree))

\* the bboxes of a tree with a Split have been recomputed after a transform
C6_Witness ==
    /\ treeop.op = "recalculate_bboxes"
    /\ edits = 1
    /\ kind = "bsp"
    /\ tree.tag = "Split"
    /\ NumLeaves(tree) = 3

RECURSIVE Shape(_)
\* a tree without its bboxes: the nodes and the polygons of the leaves
Shape(node) ==
    IF node.tag = "Split" THEN <<"Split", Shape(node.front), Shape(node.back)>>
    ELSE IF node.tag = "Leaf" THEN
        <<"Leaf", IF kind = "bsp" THEN node.poly ELSE node.poly_list>>
    ELSE <<"Empty">>

TreeShape(t) == IF kind = "bsp" THEN Shape(t) ELSE IF t = None THEN <<"None">> ELSE Shape(unwrap(t))

\* C7: a bbox recomputation changes neither the shape of the tree, the
\* polygons of its leaves nor the vertex pool, and one that follows another
\* directly leaves every bbox as it was.
C7_BboxRecomputeIdempotent ==
    [][treeop'.op = "recalculate_bboxes" =>
          /\ TreeShape(tree') = TreeShape(tree)
          /\ data_verts' = data_verts
          /\ soup' = soup
          /\ (treeop.runs >= 1 => tree' = tree)]_vars

\* the bboxes of a shield tree with a Split have been recomputed twice in a
\* row after a transform
C7_Witness ==
    /\ treeop = [op |-> "recalculate_bboxes", runs |-> 2]
    /\ edits = 1
    /\ kind = "shield"
    /\ tree # None
    /\ unwrap(tree).tag = "Split"

(***************************************************************************)
(* Claims about the encoders, read off the bytes the sink received         *)
(***************************************************************************)
\* the bytes b sit in the sink from position pos on
SinkHas(pos, b) ==
    /\ Len(sink) >= pos + Len(b) - 1
    /\ SubSeq(sink, pos, pos + Len(b) - 1) = b

\* three floats, one after the other
Vec3dBytes(v) == F32LE(v[1]) \o F32LE(v[2]) \o F32LE(v[3])

\* a WeaponHardpoint with a non-zero offset has been written in full
HardpointWritten ==
    /\ enc.ty = "WeaponHardpoint"
    /\ enc.ret = "Ok"
    /\ enc.self.offset # 0

\* the offset float follows the normal and ends the output
OffsetWritten == Len(sink) = 28 /\ SinkHas(25, F32LE(enc.self.offset))

\* the output ends with the normal
OffsetOmitted == Len(sink) = 24

\* C8 as stated: the offset of a hardpoint with a non-zero offset is written
\* at 21.17, omitted at 22.00 and written at 22.01.
C8_GatingAsStated ==
    HardpointWritten =>
        /\ (enc.version = V21_17 => OffsetWritten)
        /\ (enc.version = V22_00 => OffsetOmitted)
        /\ (enc.version = V22_01 => OffsetWritten)

\* C8: the offset of a hardpoint with a non-zero offset is omitted at 21.17
\* and at 22.00, and written at 21.18 and at 22.01.
C8_Gating ==
    HardpointWritten =>
        /\ (enc.version = V21_17 => OffsetOmitted)
        /\ (enc.version = V21_18 => OffsetWritten)
        /\ (enc.version = V22_00 => OffsetOmitted)
        /\ (enc.version = V22_01 => OffsetWritten)

\* a hardpoint with a non-zero offset has been written at 21.17
C8_Witness == HardpointWritten /\ enc.version = V21_17 /\ VERSION = V21_17

\* C9: at every version the output is position, then normal, then the
\* offset float exactly when the version is >= 21.18 and not 22.00, and
\* nothing else.
C9_OffsetIffVersion ==
    (enc.ty = "WeaponHardpoint" /\ enc.ret = "Ok") =>
        /\ enc.version \in Versions
        /\ SinkHas(1, Vec3dBytes(enc.self.position))
        /\ SinkHas(13, Vec3dBytes(enc.self.normal))
        /\ IF enc.version >= 2118 /\ enc.version # 2200
           THEN Len(sink) = 28 /\ SinkHas(25, F32LE(enc.self.offset))
           ELSE Len(sink) = 24

\* a hardpoint has been written in full at 22.00, where the offset is left out
C9_Witness ==
    /\ enc.ty = "WeaponHardpoint"
    /\ enc.ret = "Ok"
    /\ enc.version = V22_00
    /\ Len(sink) = 24

\* the four bytes a parent is written as
ParentBytes(parent) ==
    IF parent = None THEN <<255, 255, 255, 255>> ELSE <<unwrap(parent), 0, 0, 0>>

\* the bbox a SubObject hands to the sink
BboxBytes(bbox) ==
    IF bbox = BBOX_EMPTY THEN Vec3dBytes(ZERO) \o Vec3dBytes(ZERO)
    ELSE Vec3dBytes(bbox.min) \o Vec3dBytes(bbox.max)

\* where the properties string starts, and where the rotation type does
PropsAt == 61 + 4 + Len(enc.self.name)
RotAt == PropsAt + 4 + Len(enc.self.properties)
\* where bsp_data starts: the translation fields come with 23.01
BspAt == IF enc.version >= 2301 THEN RotAt + 16 ELSE RotAt + 8

\* C10: obj_id comes first; from 21.16 on radius, parent, offset follow in
\* this order, and below 21.16 parent, offset, radius; a missing parent is
\* 0xFFFFFFFF; geo_center, bbox, name, properties, the rotation and
\* translation fields and bsp_data come at the same positions either way.
C10_FieldOrder ==
    (enc.ty = "SubObject" /\ enc.ret = "Ok") =>
        /\ SinkHas(1, <<enc.self.obj_id, 0, 0, 0>>)
        /\ IF enc.version >= 2116
           THEN /\ SinkHas(5, F32LE(enc.self.radius))
                /\ SinkHas(9, ParentBytes(enc.self.parent))
                /\ SinkHas(13, Vec3dBytes(enc.self.offset))
           ELSE /\ SinkHas(5, ParentBytes(enc.self.parent))
                /\ SinkHas(9, Vec3dBytes(enc.self.offset))
                /\ SinkHas(21, F32LE(enc.self.radius))
        /\ SinkHas(25, Vec3dBytes(enc.self.geo_center))
        /\ SinkHas(37, BboxBytes(enc.self.bbox))
        /\ SinkHas(61, <<Len(enc.self.name), 0, 0, 0>> \o enc.self.name)
        /\ SinkHas(PropsAt, <<Len(enc.self.properties), 0, 0, 0>> \o enc.self.properties)
        /\ SinkHas(RotAt, <<enc.self.rotation_type, 0, 0, 0>>)
        /\ SinkHas(RotAt + 4, <<255, 255, 255, 255>>)
        /\ (enc.version >= 2301 =>
                /\ SinkHas(RotAt + 8, <<255, 255, 255, 255>>)
                /\ SinkHas(RotAt + 12, <<enc.self.translation_axis, 0, 0, 0>>))
        /\ SinkHas(BspAt, <<0, 0, 0, 0, Len(enc.buf), 0, 0, 0>> \o enc.buf)
        /\ Len(sink) = BspAt + 7 + Len(enc.buf)

\* a SubObject without a parent has been written in full below 21.16: the
\* radius comes last of the three
C10_Witness ==
    /\ enc.ty = "SubObject"
    /\ enc.ret = "Ok"
    /\ enc.version = 2014
    /\ enc.self.parent = None
    /\ SinkHas(5, <<255, 255, 255, 255>>)
    /\ SinkHas(21, F32LE(enc.self.radius))

(***************************************************************************)
(* Claims about the version register                                       *)
(***************************************************************************)
\* C11: what get_version() returned on a thread is the version selected on
\* that thread, whatever the other thread selected and in whatever order;
\* a thread that selected none reads Version::LATEST, 23.01.
C11_VersionIsolation ==
    \A t \in Threads :
        threads[t].got # None =>
            unwrap(threads[t].got) =
                (IF threads[t].selected = None THEN 2301 ELSE unwrap(threads[t].selected))

\* both threads have read their register, one having selected 21.17 and then
\* the other 22.00
C11_Witness ==
    /\ threads[1].selected = Some(V21_17)
    /\ threads[2].selected = Some(V22_00)
    /\ threads[1].got = Some(V21_17)
    /\ threads[2].got = Some(V22_00)

(***************************************************************************)
(* Claims about the name links                                             *)
(***************************************************************************)
Relinked == last.op = "recalc_semantic_name_links"

NameOf(id) == sub_objects[id].name
LinksOf(id) == sub_objects[id].name_links

\* what follows the first "debris-" of a name that contains it
DebrisRest(id) == unwrap(split_once_rest(NameOf(id), STR_DEBRIS))
HasDebris(id) == split_once_rest(NameOf(id), STR_DEBRIS) # None

\* the names justify the link l that subobject a carries
Justified(a, l) ==
    CASE l.link = "LiveDebrisOf" -> HasDebris(a) /\ starts_with(DebrisRest(a), NameOf(l.id))
      [] l.link = "LiveDebris" -> HasDebris(l.id) /\ starts_with(DebrisRest(l.id), NameOf(a))
      [] l.link = "DestroyedVersionOf" -> NameOf(a) = NameOf(l.id) \o STR_DESTROYED
      [] l.link = "DestroyedVersion" -> NameOf(l.id) = NameOf(a) \o STR_DESTROYED
      [] l.link = "DetailLevel" ->
            /\ Len(NameOf(a)) = Len(NameOf(l.id))
            /\ \E k \in DOMAIN NameOf(a) :
                  /\ NameOf(a)[k] = 97
                  /\ NameOf(l.id)[k] = 97 + l.level
                  /\ \A n \in DOMAIN NameOf(a) : n # k => NameOf(a)[n] = NameOf(l.id)[n]
      [] l.link = "DetailLevelOf" ->
            /\ Len(NameOf(a)) = Len(NameOf(l.id))
            /\ \E k \in DOMAIN NameOf(a) :
                  /\ NameOf(l.id)[k] = 97
                  /\ NameOf(a)[k] = 97 + l.level
                  /\ \A n \in DOMAIN NameOf(a) : n # k => NameOf(a)[n] = NameOf(l.id)[n]

\* C12: after recalc_semantic_name_links every link has its back-link as
\* many times as it occurs, at the same level for detail levels; every link
\* is one the names as they are call for, none being left from an earlier
\* call; no subobject is linked to itself.
C12_LinkReciprocity ==
    Relinked =>
        /\ \A a, b \in ObjIds :
              /\ Count(LinksOf(a), LiveDebris(b)) = Count(LinksOf(b), LiveDebrisOf(a))
              /\ Count(LinksOf(a), DestroyedVersion(b)) = Count(LinksOf(b), DestroyedVersionOf(a))
              /\ \A k \in 0 .. 7 :
                    Count(LinksOf(a), DetailLevel(b, k)) = Count(LinksOf(b), DetailLevelOf(a, k))
        /\ \A a \in ObjIds : \A n \in DOMAIN LinksOf(a) :
              /\ LinksOf(a)[n].id # a
              /\ Justified(a, LinksOf(a)[n])

\* "ta" has been linked to its detail level "tb" and to its debris
\* "debris-tab", and these are all the links there are
C12_Witness ==
    /\ Relinked
    /\ NameOf(0) = <<116, 97>>
    /\ NameOf(1) = <<116, 98>>
    /\ NameOf(2) = STR_DEBRIS \o <<116, 97, 98>>
    /\ LinksOf(0) = <<DetailLevel(1, 1), LiveDebris(2)>>
    /\ LinksOf(1) = <<DetailLevelOf(0, 1)>>
    /\ LinksOf(2) = <<LiveDebrisOf(0)>>

\* D and S are a debris/source pair
DebrisPair(d, s) ==
    /\ Count(LinksOf(d), LiveDebrisOf(s)) = 1
    /\ Count(LinksOf(s), LiveDebris(d)) = 1

\* C13 as stated: D is paired with S when what follows the first "debris-"
\* of D's name is a prefix of S's name.
C13_DebrisRuleAsStated ==
    Relinked =>
        \A d, s \in ObjIds :
            (d # s /\ HasDebris(d) /\ starts_with(NameOf(s), DebrisRest(d))) => DebrisPair(d, s)

\* the subobjects whose name what follows "debris-" in D's name starts with
SourcesOf(d) == {s \in ObjIds : starts_with(DebrisRest(d), NameOf(s))}

\* C13: D, whose name contains "debris-", is paired with the first
\* subobject whose name is a prefix of what follows the first "debris-" of
\* D's name, and with no other; it is paired with none when there is no
\* such subobject.
C13_DebrisRule ==
    Relinked =>
        \A d \in ObjIds :
            HasDebris(d) =>
                \A s \in ObjIds :
                    IF SourcesOf(d) # {} /\ s = Least(SourcesOf(d)) THEN DebrisPair(d, s)
                    ELSE /\ Count(LinksOf(d), LiveDebrisOf(s)) = 0
                         /\ Count(LinksOf(s), LiveDebris(d)) = 0

\* "debris-tab" has been paired with "ta", the name after it, "t", being a
\* prefix as well
C13_Witness ==
    /\ Relinked
    /\ NameOf(0) = STR_DEBRIS \o <<116, 97, 98>>
    /\ NameOf(1) = <<116, 97>>
    /\ NameOf(2) = <<116>>
    /\ DebrisPair(0, 1)

(***************************************************************************)
(* Claims about the transforms                                             *)
(***************************************************************************)
\* the subobjects as they were when the last call was made
Before == last.before

\* vertex k of subobject id of the model so, in world space
WorldVert(so, id, k) == VAdd(so[id].verts[k], get_total_subobj_offset(so, id))

\* C14: after subobj_move_only_offset(id, new_offset) the offset of id is
\* new_offset, every vertex of id is where it was in world space, every
\* direct child's offset has changed by -(new_offset - old_offset) and its
\* total offset has not changed, and the offsets and vertices of all other
\* subobjects are as they were.
C14_MoveOnlyOffset ==
    (last.op = "subobj_move_only_offset" /\ last.fault = "none") =>
        LET id == last.a
            diff == VSub(last.new_offset, Before[id].offset)
        IN  /\ sub_objects[id].offset = last.new_offset
            /\ \A k \in DOMAIN Before[id].verts :
                  WorldVert(sub_objects, id, k) = WorldVert(Before, id, k)
            /\ \A c \in ObjIds :
                  /\ c # id => sub_objects[c].verts = Before[c].verts
                  /\ Before[c].parent = Some(id) =>
                        /\ sub_objects[c].offset = VSub(Before[c].offset, diff)
                        /\ get_total_subobj_offset(sub_objects, c)
                               = get_total_subobj_offset(Before, c)
                  /\ (c # id /\ Before[c].parent # Some(id)) =>
                        sub_objects[c].offset = Before[c].offset

\* subobject 1 of the chain, which has a parent and a child, has been moved
\* to an offset other than its own
C14_Witness ==
    /\ last.op = "subobj_move_only_offset"
    /\ last.fault = "none"
    /\ last.a = 1
    /\ Before[1].parent = Some(0)
    /\ Before[2].parent = Some(1)
    /\ Before[1].offset # last.new_offset
    /\ sub_objects[2].offset # Before[2].offset

\* n undoes m: n after m takes every point to itself
IsInverse(m, n) ==
    \A p \in {ZERO, <<1, 0, 0>>, <<0, 1, 0>>, <<0, 0, 1>>} :
        transform_point(n, transform_point(m, p)) = p

\* the last two calls were apply_subobj_transform(id, M, f) and
\* apply_subobj_transform(id, M^-1, f)
RoundTrip ==
    /\ last.op = "apply_subobj_transform"
    /\ last.prev.op = "apply_subobj_transform"
    /\ last.fault = "none"
    /\ last.prev.fault = "none"
    /\ last.a = last.prev.a
    /\ last.flag = last.prev.flag
    /\ IsInverse(last.prev.matrix, last.matrix)

\* C15: after apply_subobj_transform(id, M, f) and then (id, M^-1, f) every
\* vertex and every offset is what it was before the first call, and every
\* tree has as many leaves as it had, holding the same polygons (their
\* vertex lists and textures).
C15_TransformRoundTrip ==
    RoundTrip =>
        \A id \in ObjIds :
            /\ sub_objects[id].verts = last.prev.before[id].verts
            /\ sub_objects[id].offset = last.prev.before[id].offset
            /\ NumLeaves(sub_objects[id].tree) = NumLeaves(last.prev.before[id].tree)
            /\ SameBag(BspLeafPolys(sub_objects[id].tree),
                       BspLeafPolys(last.prev.before[id].tree))

\* the head of the chain has been turned and moved, the translation going to
\* its vertices, and then turned and moved back
C15_Witness ==
    /\ RoundTrip
    /\ last.a = 0
    /\ last.flag = FALSE
    /\ last.prev.matrix.l # IDENTITY3
    /\ last.before[0].verts # sub_objects[0].verts
    /\ last.before[2].verts # sub_objects[2].verts
    /\ NumLeaves(sub_objects[2].tree) = 2

\* C16: Model::apply_transform enters apply_subobj_transform once for every
\* subobject; under a translation by t the offset of every subobject
\* without a parent changes by t, every other offset and every vertex stays,
\* and every total offset moves by t.
C16_WholeModelTransform ==
    (last.op = "apply_transform" /\ last.fault = "none") =>
        /\ \A id \in ObjIds : Count(last.calls, id) = 1
        /\ last.matrix.l = IDENTITY3 =>
              \A id \in ObjIds :
                  /\ sub_objects[id].verts = Before[id].verts
                  /\ sub_objects[id].offset =
                        (IF Before[id].parent = None
                         THEN VAdd(Before[id].offset, last.matrix.t) ELSE Before[id].offset)
                  /\ get_total_subobj_offset(sub_objects, id)
                        = VAdd(get_total_subobj_offset(Before, id), last.matrix.t)

\* a model of two roots, one of them with a child, has been translated
C16_Witness ==
    /\ last.op = "apply_transform"
    /\ last.fault = "none"
    /\ last.matrix = [l |-> IDENTITY3, t |-> <<100, 0, -200>>]
    /\ Before[0].parent = Some(1)
    /\ Before[1].parent = None
    /\ Before[2].parent = None
    /\ last.calls = <<1, 0, 2>>

(***************************************************************************)
(* Claims about a failing sink                                             *)
(***************************************************************************)
\* the bytes a write_to that met no failure puts into the sink
FullOutput == Concat(enc.writes, Len(enc.writes))

\* C17: when the sink reports a failure on some write of a composite
\* write_to, write_to returns that failure and issues no write after it, and
\* the bytes the sink accepted are a prefix of the bytes of a successful
\* write; when the sink reports none, write_to returns Ok with all the bytes.
C17_FailurePropagation ==
    enc.ty # "none" =>
        /\ enc.ret = "Err" <=> enc.fail_at <= Len(enc.writes)
        /\ enc.ret = "Err" => enc.calls = enc.fail_at /\ starts_with(FullOutput, sink)
        /\ enc.ret = "Ok" => enc.calls = Len(enc.writes) /\ sink = FullOutput

\* a ThrusterBank whose second glow met the failure, some bytes of the
\* failed write accepted
C17_Witness ==
    /\ enc.ty = "ThrusterBank"
    /\ enc.ret = "Err"
    /\ enc.fail_at > 10
    /\ enc.fail_at < Len(enc.writes)
    /\ enc.part = 1
    /\ Len(sink) > 40
    /\ sink # FullOutput

(***************************************************************************)
(* Claims about the property text                                          *)
(***************************************************************************)
\* the field occurs in the text
Occurs(text, field) == Occurrences(text, field) # {}

\* what follows the first occurrence of the field and the separator after it
AfterSeparator(text, field) ==
    slice(text, skip_separators(text, unwrap(str_find(text, field)) + Len(field)), Len(text))

\* a text up to its first control character
UpToControl(s) ==
    IF control_position(s, 0) = None THEN s ELSE slice(s, 0, unwrap(control_position(s, 0)))

\* the value the field has in the text: after the separator, up to the first
\* control character, trimmed
StatedValue(text, field) == trim(UpToControl(AfterSeparator(text, field)))

\* C18: properties_get_field(text, key) returns none if the key does not
\* occur in the text, and otherwise returns the value that follows the key's
\* first occurrence after the separator, ending at the first control
\* character, trimmed.
C18_PropertyLookup ==
    propop.op = "get" =>
        /\ propop.ret.fault = "none"
        /\ IF Occurs(propop.before, propop.field)
           THEN propop.ret.value = Some(StatedValue(propop.before, propop.field))
           ELSE propop.ret.value = None

\* where the value of the field's first occurrence starts and ends in the text
StatedStart(text, field) == skip_separators(text, unwrap(str_find(text, field)) + Len(field))
StatedEnd(text, field) ==
    StatedStart(text, field) + Len(UpToControl(AfterSeparator(text, field)))

\* C19: after properties_update_field(text, key, value) with a non-empty
\* value without control characters, properties_get_field(text, key) returns
\* exactly that value; when the key was absent the new text is the old text
\* followed by a new line "key=value" ("key=value" alone when the text was
\* empty), and when the key was present the value of its first occurrence is
\* replaced and nothing else changes.
C19_SetGetRoundTrip ==
    (propop.op = "update" /\ propop.val # <<>>) =>
        LET text == propop.before
            key == propop.field
        IN  /\ properties_get_field(properties, key) = Returned(Some(propop.val))
            /\ IF Occurs(text, key)
               THEN properties = slice(text, 0, StatedStart(text, key)) \o propop.val
                                 \o slice(text, StatedEnd(text, key), Len(text))
               ELSE properties = IF text = <<>> THEN key \o <<61>> \o propop.val
                                 ELSE text \o <<10>> \o key \o <<61>> \o propop.val

(***************************************************************************)
(* Claims about normalized directions                                      *)
(***************************************************************************)
\* the directions the entity holds are unit vectors
UnitDirections ==
    IF entity.ty = "Dock"
    THEN magnitude_squared(entity.fvec) = 1 /\ magnitude_squared(entity.uvec) = 1
    ELSE magnitude_squared(entity.normal) = 1

\* C20: NormalVec3::try_from returns an error value for a near-zero vector
\* and never panics, and no caller that normalizes a direction (the
\* apply_transform of EyePoint, WeaponHardpoint, ThrusterGlow, Dock and
\* Turret, Dock::orthonormalize, Dock::set_uvec_angle) aborts when that error
\* occurs: it is left with a default unit direction, for every matrix.
C20_SoftNormalization ==
    normop.op # "none" => normop.fault = "none" /\ UnitDirections

(***************************************************************************)
(* Claims about the median split                                           *)
(***************************************************************************)
RECURSIVE LeafCenters(_)
\* the centroids of the primitives in the leaves of a node
LeafCenters(node) ==
    IF node.tag = "Split" THEN LeafCenters(node.front) \o LeafCenters(node.back)
    ELSE IF node.tag = "Leaf" THEN
        IF kind = "bsp" THEN <<average(PolyPoints(data_verts, node.poly.verts))>>
        ELSE [i \in DOMAIN node.poly_list |->
                 average(PolyPoints(data_verts, soup[node.poly_list[i] + 1].verts))]
    ELSE <<>>

RECURSIVE MedianSplit(_)
\* every Split of the node halves its primitives, the front branch taking
\* the lesser centroids on the axis the Split's bbox is longest on
MedianSplit(node) ==
    node.tag = "Split" =>
        /\ NumLeaves(node.front) = NumLeaves(node) \div 2
        /\ NumLeaves(node.back) = NumLeaves(node) - NumLeaves(node) \div 2
        /\ NumLeaves(node.front) >= 1
        /\ \A a \in Range(LeafCenters(node.front)), b \in Range(LeafCenters(node.back)) :
               CenterLeq(a, b, greatest_dimension(node.bbox))
        /\ MedianSplit(node.front)
        /\ MedianSplit(node.back)

\* C21: in a tree built from n >= 2 primitives every Split over m primitives
\* has floor(m/2) of them in its front branch and ceil(m/2) in its back
\* branch, no branch is empty, and on the axis of greatest extent of the
\* Split's bbox every front centroid is <= every back centroid.
C21_MedianSplit ==
    (treeop.op = "recalculate" /\ Len(input) >= 2) =>
        TheTree.tag = "Split" /\ MedianSplit(TheTree)

\* a tree over three polygons of the pool in general position whose back
\* branch is a Split
C21_Witness ==
    /\ treeop.op = "recalculate"
    /\ Len(input) = 3
    /\ TheTree.tag = "Split"
    /\ TheTree.front.tag = "Leaf"
    /\ TheTree.back.tag = "Split"
    /\ data_verts[1] # data_verts[2]

(***************************************************************************)
(* Claims about degenerate geometry                                        *)
(***************************************************************************)
\* C22: BspData::recalculate and ShieldData::recalculate_tree return a tree
\* for every input whose vertex ids index the vertex pool, coincident
\* vertices and NaN or infinite coordinates included: no input makes them
\* abort.
C22_ConstructionNeverFails ==
    treeop.op = "recalculate" => treeop.fault = "none"

(***************************************************************************)
(* Claims about the traversal of the hierarchy                             *)
(***************************************************************************)
\* id and its descendants
Subtree(so, id) == {d \in ObjIds : d = id \/ id \in AncestorsOf(so, d, Cardinality(ObjIds))}

RECURSIVE AreaOf(_, _)
\* the areas of the subobjects of S, each counted once
AreaOf(so, S) ==
    IF S = {} THEN 0
    ELSE LET d == CHOOSE x \in S : TRUE
         IN  SubObject_surface_area_average_pos(so[d]).this_area + AreaOf(so, S \ {d})

\* C23: do_for_recursive_subobj_children(id, f) invokes f exactly once for
\* id and for each of its descendants and for no other subobject, on any
\* model whose children arrays match its acyclic parent fields; so
\* surface_area_average_pos counts each subobject of the detail-0 hierarchy
\* once.
C23_EachVisitedOnce ==
    /\ last.op = "do_for_recursive_subobj_children" =>
           \A d \in ObjIds :
               Count(last.ret, d) = IF d \in Subtree(sub_objects, last.a) THEN 1 ELSE 0
    /\ (last.op = "surface_area_average_pos" /\ last.a # <<>>) =>
           last.ret.surface_area = AreaOf(sub_objects, Subtree(sub_objects, last.a[1]))

(***************************************************************************)
(* Claims about the warnings                                               *)
(***************************************************************************)
\* the last call rechecked one warning right after a full recheck
SingleAfterAll ==
    /\ modelop.op = "recheck_warnings"
    /\ modelop.arg # None
    /\ modelop.after_all
    /\ modelop.fault = "none"

\* C24: immediately after recheck_warnings(Set::All), for every warning w
\* about existing entities, recheck_warnings(Set::One(w)) leaves the
\* warnings set unchanged (InvertedBBox on a bbox equal to
\* BoundingBox::EMPTY included): w is in the set the full recheck built
\* exactly when the single check for w fails.
C24_SingleAgreesWithFull ==
    SingleAfterAll =>
        /\ model.warnings = modelop.before
        /\ unwrap(modelop.arg) \in modelop.before <=> failed_check(model, unwrap(modelop.arg))

(***************************************************************************)
(* Claims about reparenting                                                *)
(***************************************************************************)
\* the step is a make_parent call that returned Some
MakeParentReturnedSome ==
    /\ ops' = ops + 1
    /\ last'.op = "make_parent"
    /\ last'.ret = "Some"
    /\ last'.fault = "none"

\* C25: whenever make_parent(new_parent, new_child) returns Some,
\* get_total_subobj_offset(new_child) after the call equals
\* get_total_subobj_offset(new_child) before it, whether or not new_child
\* already had a parent, and the offset of no other subobject changes.
C25_ReparentKeepsPosition ==
    [][MakeParentReturnedSome =>
           /\ get_total_subobj_offset(sub_objects', last'.b)
                  = get_total_subobj_offset(sub_objects, last'.b)
           /\ \A id \in ObjIds \ {last'.b} : sub_objects'[id].offset = sub_objects[id].offset]_vars

(***************************************************************************)
(* Claims about the dock paths                                             *)
(***************************************************************************)
\* two bays point to the same path
SamePath(a, b) == a.path # None /\ a.path = b.path

\* every bay has no path or a path index below n
PathsBelow(bays, n) == \A i \in DOMAIN bays : bays[i].path = None \/ unwrap(bays[i].path) < n

\* C26: path_removal_fixup(r) gives every bay whose path was r the path
\* None and every bay whose path index was greater than r that index minus
\* one, and leaves every other bay unchanged; so if every index was below
\* the path count N, every index is below N - 1 afterwards, and two bays
\* that did not point to r point to the same path afterwards exactly when
\* they did before.
C26_PathRemovalFixup ==
    modelop.op = "path_removal_fixup" =>
        LET r == modelop.removed_idx
            before == modelop.before
            after == model.docking_bays
            N == Len(model.paths)
            kept == {i \in DOMAIN before : before[i].path # Some(r)}
        IN  /\ DOMAIN after = DOMAIN before
            /\ \A i \in DOMAIN before :
                   after[i] = IF before[i].path = Some(r) THEN [before[i] EXCEPT !.path = None]
                              ELSE IF before[i].path # None /\ unwrap(before[i].path) > r
                                   THEN [before[i] EXCEPT !.path = Some(unwrap(@) - 1)]
                              ELSE before[i]
            /\ PathsBelow(before, N) => PathsBelow(after, N - 1)
            /\ \A i, j \in kept : SamePath(after[i], after[j]) <=> SamePath(before[i], before[j])

\* bays pointed to the removed path, to a higher and to a lower one
C26_Witness ==
    /\ modelop.op = "path_removal_fixup"
    /\ modelop.removed_idx = 1
    /\ Len(model.paths) = 3
    /\ PathsBelow(modelop.before, 3)
    /\ {modelop.before[i].path : i \in DOMAIN modelop.before} = {Some(0), Some(1), Some(2)}
    /\ {model.docking_bays[i].path : i \in DOMAIN model.docking_bays} = {Some(0), None, Some(1)}

(***************************************************************************)
(* Claims about the untextured slot                                        *)
(***************************************************************************)
\* the texture ids of the polygons of every subobject's tree
TextureIdsOf(self) ==
    UNION {{bsp_leaves(self.sub_objects[i].collision_tree)[k].poly.texture :
                k \in DOMAIN bsp_leaves(self.sub_objects[i].collision_tree)}
              : i \in DOMAIN self.sub_objects}

\* C27: after post_parse_fill_untextured_slot every polygon of every
\* subobject's tree has a texture id strictly below textures.len(); when
\* the function returns Some(id), textures[id] is "Untextured"; it returns
\* None only when there was no "Untextured" texture and no polygon with an
\* id out of range, and then textures and polygons are unchanged; a second
\* call changes nothing and returns the same result.
C27_NoDanglingTexture ==
    modelop.op = "post_parse_fill_untextured_slot" =>
        /\ \A t \in TextureIdsOf(model) : t < Len(model.textures)
        /\ modelop.ret # None =>
               /\ unwrap(modelop.ret) < Len(model.textures)
               /\ model.textures[unwrap(modelop.ret) + 1] = STR_UNTEXTURED
        /\ modelop.ret = None =>
               /\ STR_UNTEXTURED \notin Range(modelop.before.textures)
               /\ \A t \in TextureIdsOf(modelop.before) : t < Len(modelop.before.textures)
               /\ model = modelop.before
        /\ modelop.calls = 2 => model = modelop.before /\ modelop.ret = modelop.prev

\* the second call after a first call that found a polygon carrying the
\* sentinel and no "Untextured" texture, and pushed one
C27_Witness ==
    /\ modelop.op = "post_parse_fill_untextured_slot"
    /\ modelop.calls = 2
    /\ UNTEXTURED \in TextureIdsOf(modelop.given)
    /\ Len(model.textures) = Len(modelop.given.textures) + 1
    /\ modelop.ret = Some(Len(modelop.given.textures))

(***************************************************************************)
(* Claims about the totality of the property lookup                        *)
(***************************************************************************)
\* C28: for every text and key, a key followed by '=', ':' or a space and
\* then a tab or carriage return included, the range properties_find_field
\* computes has start <= end <= text length, so properties_get_field
\* returns a value or none and never aborts on an invalid slice.
C28_GetFieldTotal ==
    propop.op = "get" =>
        /\ propop.ret.fault = "none"
        /\ LET range == properties_find_field(propop.before, propop.field)
           IN  range # None =>
                   /\ unwrap(range)[1] <= unwrap(range)[2]
                   /\ unwrap(range)[2] <= Len(propop.before)

(***************************************************************************)
(* Claims about rebuilding a tree from its own leaves                      *)
(***************************************************************************)
\* the step rebuilds the BSP tree from its own leaves on the vertices as
\* they are, as apply_subobj_transform does with the identity matrix
RebuildOnUnchangedGeometry ==
    /\ kind = "bsp"
    /\ treeop'.op = "recalculate"
    /\ data_verts' = data_verts
    /\ input' = into_leaves_polys(tree)

\* C29 as stated: rebuilding from the leaves of a tree on unchanged
\* vertices gives the same tree, so apply_subobj_transform with the identity
\* matrix leaves the tree of the subobject unchanged.
C29_RebuildAsStated ==
    [][RebuildOnUnchangedGeometry => tree' = tree]_vars

\* C29: BspData::recalculate(verts, BspData::recalculate(verts, P)
\* .into_leaves()) is the tree BspData::recalculate(verts, P), with the
\* same shape, the same bbox at every node and the same polygon in every
\* leaf, also when polygons have equal centroid coordinates on a split
\* axis; so apply_subobj_transform with the identity matrix leaves
\* unchanged a tree that BspData::recalculate built.
C29_RebuildIdempotent ==
    [][(RebuildOnUnchangedGeometry /\ treeop.op = "recalculate") => tree' = tree]_vars

\* a tree of three leaves, two of them holding equal polygons (equal
\* centroids on every axis), has been rebuilt from the leaves of a built
\* tree: only a built tree has polygons with a computed normal
C29_Witness ==
    /\ kind = "bsp"
    /\ treeop.op = "recalculate"
    /\ Len(input) = 3
    /\ input = into_leaves_polys(tree)
    /\ \E i, j \in DOMAIN input : i # j /\ input[i] = input[j]
    /\ input[1].normal # ZERO
    /\ tree.tag = "Split"

(***************************************************************************)
(* Claims about the warnings for what the encoder leaves out               *)
(***************************************************************************)
\* write_to leaves the offset of the hardpoint out at the version: the
\* bytes are those of the hardpoint with the default offset
EncoderOmitsOffset(point, version) ==
    WeaponHardpoint_write_to(point, version)
        = WeaponHardpoint_write_to([point EXCEPT !.offset = 0], version)

EncoderOmitsProperties(bank, version) ==
    ThrusterBank_write_to(bank, version)
        = ThrusterBank_write_to([bank EXCEPT !.properties = <<>>], version)

EncoderOmitsTranslation(subobj, version) ==
    SubObject_write_to(subobj, version, <<>>)
        = SubObject_write_to([subobj EXCEPT !.translation_type = -1, !.translation_axis = -1],
                             version, <<>>)

\* the last call was a full recheck that returned
FullRecheckDone ==
    /\ modelop.op = "recheck_warnings"
    /\ modelop.arg = None
    /\ modelop.fault = "none"

\* C30: with the version register equal to model.version, after
\* recheck_warnings(Set::All) WeaponOffsetInvalidVersion is present for a
\* hardpoint exactly when its offset is non-zero and write_to omits it,
\* ThrusterPropertiesInvalidVersion for a bank exactly when its properties
\* are non-empty and write_to omits them, SubObjectTranslationInvalidVersion
\* for a subobject exactly when its translation type or translation axis is
\* not None and write_to omits both.
C30_NoSilentDataLoss ==
    FullRecheckDone =>
        /\ \A primary \in {0, 1} :
               LET weps == IF primary = 1 THEN model.primary_weps ELSE model.secondary_weps
               IN  \A i \in DOMAIN weps : \A j \in DOMAIN weps[i] :
                       Warning("WeaponOffsetInvalidVersion", <<primary, i - 1, j - 1>>)
                               \in model.warnings
                           <=> /\ weps[i][j].offset # 0
                               /\ EncoderOmitsOffset(weps[i][j], model.version)
        /\ \A i \in DOMAIN model.thruster_banks :
               Warning("ThrusterPropertiesInvalidVersion", <<i - 1>>) \in model.warnings
                   <=> /\ model.thruster_banks[i].properties # <<>>
                       /\ EncoderOmitsProperties(model.thruster_banks[i], model.version)
        /\ \A id \in DOMAIN model.sub_objects :
               Warning("SubObjectTranslationInvalidVersion", <<id>>) \in model.warnings
                   <=> /\ \/ model.sub_objects[id].translation_type # -1
                          \/ model.sub_objects[id].translation_axis # -1
                       /\ EncoderOmitsTranslation(model.sub_objects[id], model.version)

====
